---- MODULE Spec2Model ----
(***************************************************************************)
(* ZE-Dashboard backend: the permission-aware contract access and audit    *)
(* core (backend/main.py, models.py, schemas.py, security_utils.py).       *)
(*                                                                         *)
(* The state is the relational store (users, contracts, tags, lists,       *)
(* permission rows, audit log), the upload directory, the requests that    *)
(* are in progress and the last response sent.  A handler is a sequence    *)
(* of steps, one per session.commit(): what a request has read stays in    *)
(* its record while other requests run.                                    *)
(***************************************************************************)
EXTENDS Integers, Sequences, FiniteSets, Bags, TLC

\* ------------------------------------------------------------- bounds
\* at most this many contract rows exist at a time
MaxContracts == 1
\* at most this many audit rows are written in a run
MaxAudit == 2
\* at most this many requests are in progress at a time
MaxInflight == 2
\* at most this many permission rows exist at a time
MaxPerms == 2
\* at most this many blobs are ever named in the upload directory
MaxFiles == 2
\* at most this many user rows exist
MaxUsers == 3

\* ------------------------------------------------------------- Python values
\* Optional[T]: None is the empty set, a value v is {v}
None == {}
Some(v) == {v}
Get(o) == CHOOSE v \in o : TRUE

Max(S) == CHOOSE m \in S : \A x \in S : x <= m
\* INTEGER PRIMARY KEY of a new row (SQLite rowid: largest id in the table + 1)
NewId(ids) == IF ids = {} THEN 1 ELSE Max(ids) + 1

RECURSIVE SeqToSet(_)
SeqToSet(s) == IF s = <<>> THEN {} ELSE {Head(s)} \cup SeqToSet(Tail(s))

\* ------------------------------------------------------------- value domains
UserIds == {1, 2}
ContractIds == 1..MaxContracts
Levels == {"read", "write", "full"}
\* the levels PermissionCreate's pattern accepts
PermissionLevelPattern == {"read", "write", "full"}

VARIABLES
    users,      \* User table: id -> [username, role, is_active]
    contracts,  \* Contract table: id -> row
    tags,       \* Tag table: id -> [name]
    tagLinks,   \* ContractTagLink rows: <<contract_id, tag_id>>
    lists,      \* ContractList table: set of list ids
    listLinks,  \* ContractListLink rows: <<contract_id, list_id>>
    perms,      \* ContractPermission rows: [id, user_id, contract_id, permission_level]
    audit,      \* AuditLog table, in insertion order
    files,      \* the blobs in the upload directory
    inflight,   \* requests in progress
    resp        \* the last response sent

store == <<users, contracts, tags, tagLinks, lists, listLinks, perms>>
vars == <<users, contracts, tags, tagLinks, lists, listLinks, perms, audit, files,
          inflight, resp>>


\* ------------------------------------------------------------- store reads
Exists(table, id) == id \in DOMAIN table
PermIds == {p.id : p \in perms}
PermissionRows(user_id, contract_id) ==
    {p \in perms : p.user_id = user_id /\ p.contract_id = contract_id}
\* what select(ContractPermission).where(...).first() can return: None without a
\* matching row, else one of the matching rows (the query states no order)
FirstPermission(user_id, contract_id) ==
    IF PermissionRows(user_id, contract_id) = {} THEN {None}
    ELSE {Some(p) : p \in PermissionRows(user_id, contract_id)}
TagIdsOf(contract_id) == {l[2] : l \in {k \in tagLinks : k[1] = contract_id}}
TagNamesOf(contract_id) == {tags[t].name : t \in TagIdsOf(contract_id)}
TagByName(name) == {t \in DOMAIN tags : tags[t].name = name}

\* ------------------------------------------------------------- Permission Evaluator
level_hierarchy(level) ==
    CASE level = "read" -> 1
      [] level = "write" -> 2
      [] level = "full" -> 3
      [] OTHER -> 0

\* the evaluator without its admin shortcut
check_contract_permission_no_admin(user, contract_id, required_level, permission) ==
    IF permission = None THEN TRUE
    ELSE level_hierarchy(Get(permission).permission_level)
             >= level_hierarchy(required_level)
\* the evaluator reading a missing row as no access
check_contract_permission_deny_missing(user, contract_id, required_level, permission) ==
    IF user.role = "admin" THEN TRUE
    ELSE IF permission = None THEN FALSE
    ELSE level_hierarchy(Get(permission).permission_level)
             >= level_hierarchy(required_level)
\* the evaluator demanding a level above the required one
check_contract_permission_strict(user, contract_id, required_level, permission) ==
    IF user.role = "admin" THEN TRUE
    ELSE IF permission = None THEN TRUE
    ELSE level_hierarchy(Get(permission).permission_level)
             > level_hierarchy(required_level)
\* the evaluator taking any row as sufficient
check_contract_permission_any_row(user, contract_id, required_level, permission) ==
    TRUE
\* `permission` is the row the lookup returned (None when there is none)
check_contract_permission(user, contract_id, required_level, permission) ==
    IF user.role = "admin" THEN TRUE
    ELSE IF permission = None THEN TRUE
    ELSE level_hierarchy(Get(permission).permission_level)
             >= level_hierarchy(required_level)

\* the dependency letting every authenticated user through
require_admin_any_user(current_user) == TRUE
require_admin(current_user) == current_user.role = "admin"

\* ------------------------------------------------------------- responses, requests
Response(op, user, cid, status) ==
    [op |-> op, user |-> user, cid |-> cid, status |-> status]
\* the response to an update_contract request, with the request it answers
ResponseTo(req, user, cid, status) ==
    [op |-> "update_contract", user |-> user, cid |-> cid, status |-> status,
     req |-> req]
Rids == 1..MaxInflight
FreeRid == CHOOSE r \in Rids : \A q \in inflight : q.rid # r
CanStart == Cardinality(inflight) < MaxInflight
\* audit rows the requests in progress are still going to write
PendingAudits == Cardinality({q \in inflight : q.audits})
RoomForAudit == Len(audit) + PendingAudits < MaxAudit
Reply(op, user, cid, status) ==
    /\ resp' = Response(op, user, cid, status)
    /\ UNCHANGED <<store, audit, files, inflight>>
ReplyTo(req, user, cid, status) ==
    /\ resp' = ResponseTo(req, user, cid, status)
    /\ UNCHANGED <<store, audit, files, inflight>>

\* ------------------------------------------------------------- Audit Recorder
\* the empty diff summary
NoChanges == [f \in {} |-> <<>>]
\* An AuditLog row.  details is the detail string: the contract id of its
\* "[CID:n]" prefix (0 without one), the contract title interpolated into the
\* text ("" without one) and, for UPDATE_CONTRACT, the diff summary
\* field -> <<old, new>>.  User names and permission levels in the text,
\* timestamp, ip_address and user_agent are not modelled.
AuditRow(user_id, action, marker, title, changes) ==
    [user_id |-> user_id, action |-> action,
     details |-> [marker |-> marker, title |-> title, changes |-> changes]]
\* a recorder that keeps the latest entry of a user and action only
log_audit_latest_only(user_id, action, marker, title, changes) ==
    audit' = Append(SelectSeq(audit, LAMBDA e : ~(e.user_id = user_id /\ e.action = action)),
                    AuditRow(user_id, action, marker, title, changes))
log_audit(user_id, action, marker, title, changes) ==
    audit' = Append(audit, AuditRow(user_id, action, marker, title, changes))

\* ------------------------------------------------------------- permissions (admin)
PermData == [user_id : UserIds \cup {3}, contract_id : ContractIds,
             permission_level : Levels \cup {"owner"}]

\* create_permission up to the lookup of the existing row
create_permission_begin(u, perm_data) ==
    /\ CanStart
    /\ u \in DOMAIN users
    /\ IF ~require_admin(users[u])
         THEN Reply("create_permission", u, perm_data.contract_id, 403)
       ELSE IF perm_data.permission_level \notin PermissionLevelPattern
         THEN Reply("create_permission", u, perm_data.contract_id, 422)
       ELSE IF ~Exists(users, perm_data.user_id) \/ ~Exists(contracts, perm_data.contract_id)
         THEN Reply("create_permission", u, perm_data.contract_id, 404)
       ELSE /\ RoomForAudit
            /\ \E existing \in FirstPermission(perm_data.user_id, perm_data.contract_id) :
                 /\ existing = None =>
                      NewId(PermIds) + Cardinality({q \in inflight :
                          q.op = "create_permission" /\ q.pc = "commit"
                          /\ q.existing = None}) <= MaxPerms
                 /\ inflight' = inflight \cup
                      {[rid |-> FreeRid, op |-> "create_permission", pc |-> "commit",
                        audits |-> TRUE, user |-> u, cid |-> perm_data.contract_id,
                        perm_data |-> perm_data,
                        existing |-> IF existing = None THEN None
                                     ELSE Some(Get(existing).id)]}
            /\ UNCHANGED <<store, audit, files, resp>>

\* the commit of lines 964-969 (update the row found) or 984-991 (insert a row)
create_permission_commit(r) ==
    /\ r \in inflight /\ r.op = "create_permission" /\ r.pc = "commit"
    /\ IF r.existing # None
         THEN IF Get(r.existing) \in PermIds
                THEN /\ perms' = {IF p.id = Get(r.existing)
                                    THEN [p EXCEPT !.permission_level =
                                              r.perm_data.permission_level]
                                    ELSE p : p \in perms}
                     /\ inflight' = (inflight \ {r}) \cup
                           {[r EXCEPT !.pc = "audit"]}
                     /\ UNCHANGED resp
                \* the row was deleted since: the UPDATE matches no row
                ELSE /\ inflight' = inflight \ {r}
                     /\ resp' = Response(r.op, r.user, r.cid, 500)
                     /\ UNCHANGED perms
         ELSE /\ perms' = perms \cup
                   {[id |-> NewId(PermIds), user_id |-> r.perm_data.user_id,
                     contract_id |-> r.perm_data.contract_id,
                     permission_level |-> r.perm_data.permission_level]}
              /\ inflight' = (inflight \ {r}) \cup {[r EXCEPT !.pc = "audit"]}
              /\ UNCHANGED resp
    /\ UNCHANGED <<users, contracts, tags, tagLinks, lists, listLinks, audit, files>>

\* the log_audit call of lines 971-973 or 993-995
create_permission_audit(r) ==
    /\ r \in inflight /\ r.op = "create_permission" /\ r.pc = "audit"
    /\ inflight' = inflight \ {r}
    /\ IF Exists(contracts, r.cid)
         THEN /\ log_audit(r.user,
                    IF r.existing # None THEN "UPDATE_PERMISSION"
                    ELSE "CREATE_PERMISSION",
                    0, contracts[r.cid].title, NoChanges)
              /\ resp' = Response(r.op, r.user, r.cid, 200)
         \* contract.title is reloaded after the commit: the row is gone
         ELSE /\ resp' = Response(r.op, r.user, r.cid, 500)
              /\ UNCHANGED audit
    /\ UNCHANGED <<store, files>>

\* delete_permission: lookup, delete and commit (lines 1015-1023)
delete_permission_begin(u, permission_id) ==
    /\ CanStart
    /\ u \in DOMAIN users
    /\ IF ~require_admin(users[u])
         THEN Reply("delete_permission", u, 0, 403)
       ELSE IF permission_id \notin PermIds
         THEN Reply("delete_permission", u, 0, 404)
       ELSE LET perm == CHOOSE p \in perms : p.id = permission_id IN
            /\ RoomForAudit
            /\ perms' = perms \ {perm}
            /\ inflight' = inflight \cup
                 {[rid |-> FreeRid, op |-> "delete_permission", pc |-> "audit",
                   audits |-> TRUE, user |-> u, cid |-> perm.contract_id,
                   perm |-> perm, had_contract |-> Exists(contracts, perm.contract_id)]}
            /\ UNCHANGED <<users, contracts, tags, tagLinks, lists, listLinks,
                           audit, files, resp>>

\* the log_audit call of lines 1025-1027
delete_permission_audit(r) ==
    /\ r \in inflight /\ r.op = "delete_permission" /\ r.pc = "audit"
    /\ inflight' = inflight \ {r}
    /\ IF r.had_contract /\ ~Exists(contracts, r.cid)
         \* contract.title is reloaded after the commit: the row is gone
         THEN /\ resp' = Response(r.op, r.user, r.cid, 500)
              /\ UNCHANGED audit
         ELSE /\ log_audit(r.user, "DELETE_PERMISSION", 0,
                    IF r.had_contract THEN contracts[r.cid].title ELSE "Unknown",
                    NoChanges)
              /\ resp' = Response(r.op, r.user, r.cid, 204)
    /\ UNCHANGED <<store, files>>


\* ------------------------------------------------------------- contract values
\* a datetime: the calendar day and the time of day
DateTime(d, t) == [date |-> d, time |-> t]
\* str.strip() on a comma-separated piece of a tags form field (the pieces
\* used are "Legal", "Tax", " Tax ", "" and " ")
strip(t) == CASE t = " Tax " -> "Tax" [] t = " " -> "" [] OTHER -> t
\* an uploaded file is one of "ok", "large" (over 10MB), "badtype" (MIME type
\* not allowed), "badext" (extension not allowed), "savefail" (cannot be written)
ScalarFields == {"title", "description", "start_date", "end_date", "value",
                 "notice_period"}

RECURSIVE StripAll(_)
\* [t.strip() for t in tags.split(",") if t.strip()]
StripAll(pieces) ==
    IF pieces = <<>> THEN <<>>
    ELSE IF strip(Head(pieces)) = "" THEN StripAll(Tail(pieces))
    ELSE <<strip(Head(pieces))>> \o StripAll(Tail(pieces))

\* a path uuid4 has not handed out: not on disk, not referenced
UsedPaths == files \cup {contracts[c].file_path : c \in DOMAIN contracts}
NewPath == CHOOSE n \in 1..(Cardinality(UsedPaths) + 1) :
               n \notin UsedPaths /\ \A m \in 1..(n - 1) : m \in UsedPaths

AsyncOps == {"create_contract", "update_contract"}
\* a coroutine without an await is not interleaved with another coroutine
LoopFree == \A q \in inflight : q.op \notin AsyncOps

Advance(r, q) == inflight' = (inflight \ {r}) \cup {q}
Finish(r, status) ==
    /\ inflight' = inflight \ {r}
    /\ resp' = IF r.op = "update_contract"
                 THEN ResponseTo(r.req, r.user, r.cid, status)
                 ELSE Response(r.op, r.user, r.cid, status)

\* ------------------------------------------------------------- find-or-create tag
\* a tags table without the unique index on name
TagInsertFails_without_index(name) == FALSE
\* Tag.name is unique: the INSERT of a second row with the name fails
TagInsertFails(name) == TagByName(name) # {}
\* the select of lines 383 and 537 for the next tag name of the request
find_tag(r) ==
    /\ r \in inflight /\ r.op \in AsyncOps /\ r.pc = "tags"
    /\ LET name == Head(r.todo) IN
       IF TagByName(name) # {}
         THEN Advance(r, [r EXCEPT !.got = @ \cup TagByName(name),
                                   !.todo = Tail(@),
                                   !.pc = IF Tail(r.todo) = <<>> THEN "commit"
                                          ELSE "tags"])
         ELSE Advance(r, [r EXCEPT !.pc = "newtag"])
    /\ UNCHANGED <<store, audit, files, resp>>

\* ------------------------------------------------------------- create_contract
\* lines 331-373: the file checks, the save and the Contract object
create_contract_start(u, form) ==
    /\ CanStart
    /\ u \in DOMAIN users
    /\ IF form.file = "large"
         THEN Reply("create_contract", u, 0, 413)
       ELSE IF form.file \in {"badtype", "badext"}
         THEN Reply("create_contract", u, 0, 400)
       ELSE IF form.file = "savefail"
         THEN Reply("create_contract", u, 0, 500)
       ELSE /\ RoomForAudit
            /\ NewId(DOMAIN contracts) <= MaxContracts
            /\ NewPath <= MaxFiles
            /\ files' = files \cup {NewPath}
            /\ LET todo == IF form.tags # <<"">> THEN StripAll(form.tags) ELSE <<>> IN
               inflight' = inflight \cup
                 {[rid |-> FreeRid, op |-> "create_contract",
                   pc |-> IF todo = <<>> THEN "commit" ELSE "tags",
                   audits |-> TRUE, user |-> u, cid |-> 0, form |-> form,
                   file_path |-> NewPath, todo |-> todo, got |-> {}]}
            /\ UNCHANGED <<store, audit, resp>>

\* create_contract on one event loop: no other coroutine is in progress
create_contract_begin(u, form) == LoopFree /\ create_contract_start(u, form)

\* lines 386-389: the new tag is committed on its own
create_contract_newtag(r) ==
    /\ r \in inflight /\ r.op = "create_contract" /\ r.pc = "newtag"
    /\ IF TagInsertFails(Head(r.todo))
         \* Tag.name is unique: the INSERT fails
         THEN /\ Finish(r, 500)
              /\ UNCHANGED tags
         ELSE /\ tags' = [t \in DOMAIN tags \cup {NewId(DOMAIN tags)} |->
                            IF t \in DOMAIN tags THEN tags[t]
                            ELSE [name |-> Head(r.todo)]]
              /\ Advance(r, [r EXCEPT !.got = @ \cup {NewId(DOMAIN tags)},
                                      !.todo = Tail(@),
                                      !.pc = IF Tail(r.todo) = <<>> THEN "commit"
                                             ELSE "tags"])
              /\ UNCHANGED resp
    /\ UNCHANGED <<users, contracts, tagLinks, lists, listLinks, perms, audit, files>>

\* lines 392-394: the contract row and its tag links
create_contract_commit(r) ==
    /\ r \in inflight /\ r.op = "create_contract" /\ r.pc = "commit"
    /\ LET id == NewId(DOMAIN contracts) IN
       /\ contracts' = [c \in DOMAIN contracts \cup {id} |->
                          IF c \in DOMAIN contracts THEN contracts[c]
                          ELSE [title |-> r.form.title,
                                description |-> r.form.description,
                                start_date |-> r.form.start_date,
                                end_date |-> r.form.end_date,
                                value |-> r.form.value,
                                notice_period |-> r.form.notice_period,
                                file_path |-> r.file_path]]
       /\ tagLinks' = tagLinks \cup {<<id, t>> : t \in r.got}
       /\ Advance(r, [r EXCEPT !.pc = "audit", !.cid = id])
    /\ UNCHANGED <<users, tags, lists, listLinks, perms, audit, files, resp>>

\* line 396
create_contract_audit(r) ==
    /\ r \in inflight /\ r.op = "create_contract" /\ r.pc = "audit"
    /\ IF Exists(contracts, r.cid)
         THEN /\ log_audit(r.user, "UPLOAD", r.cid, contracts[r.cid].title,
                           NoChanges)
              /\ Finish(r, 200)
         \* session.refresh(contract) finds no row
         ELSE /\ Finish(r, 500)
              /\ UNCHANGED audit
    /\ UNCHANGED <<store, files>>

\* ------------------------------------------------------------- download_contract
download_contract(u, contract_id) ==
    /\ u \in DOMAIN users
    /\ IF ~Exists(contracts, contract_id)
         THEN Reply("download_contract", u, contract_id, 404)
       ELSE \E permission \in FirstPermission(u, contract_id) :
            IF ~check_contract_permission(users[u], contract_id, "read", permission)
              THEN Reply("download_contract", u, contract_id, 403)
            ELSE IF contracts[contract_id].file_path \notin files
              THEN Reply("download_contract", u, contract_id, 404)
            ELSE /\ RoomForAudit
                 /\ log_audit(u, "DOWNLOAD", contract_id,
                              contracts[contract_id].title, NoChanges)
                 /\ resp' = Response("download_contract", u, contract_id, 200)
                 /\ UNCHANGED <<store, files, inflight>>

\* ------------------------------------------------------------- delete_contract
\* delete_contract asking for the level update_contract asks for
delete_contract_write_level(u, contract_id) ==
    /\ u \in DOMAIN users
    /\ IF ~Exists(contracts, contract_id)
         THEN Reply("delete_contract", u, contract_id, 404)
       ELSE \E permission \in FirstPermission(u, contract_id) :
            IF ~check_contract_permission(users[u], contract_id, "write", permission)
              THEN Reply("delete_contract", u, contract_id, 403)
            ELSE /\ \E removed \in BOOLEAN :
                      files' = IF removed THEN files \ {contracts[contract_id].file_path}
                               ELSE files
                 /\ contracts' = [c \in DOMAIN contracts \ {contract_id} |-> contracts[c]]
                 /\ tagLinks' = {l \in tagLinks : l[1] # contract_id}
                 /\ listLinks' = {l \in listLinks : l[1] # contract_id}
                 /\ resp' = Response("delete_contract", u, contract_id, 204)
                 /\ UNCHANGED <<users, tags, lists, perms, audit, inflight>>

\* delete_contract answering the delete of a missing contract as done
delete_contract_idempotent(u, contract_id) ==
    /\ u \in DOMAIN users
    /\ IF ~Exists(contracts, contract_id)
         THEN Reply("delete_contract", u, contract_id, 204)
       ELSE \E permission \in FirstPermission(u, contract_id) :
            IF ~check_contract_permission(users[u], contract_id, "full", permission)
              THEN Reply("delete_contract", u, contract_id, 403)
            ELSE /\ \E removed \in BOOLEAN :
                      files' = IF removed THEN files \ {contracts[contract_id].file_path}
                               ELSE files
                 /\ contracts' = [c \in DOMAIN contracts \ {contract_id} |-> contracts[c]]
                 /\ tagLinks' = {l \in tagLinks : l[1] # contract_id}
                 /\ listLinks' = {l \in listLinks : l[1] # contract_id}
                 /\ resp' = Response("delete_contract", u, contract_id, 204)
                 /\ UNCHANGED <<users, tags, lists, perms, audit, inflight>>

\* delete_contract leaving the rows of the list link table alone
delete_contract_keep_list_links(u, contract_id) ==
    /\ u \in DOMAIN users
    /\ IF ~Exists(contracts, contract_id)
         THEN Reply("delete_contract", u, contract_id, 404)
       ELSE \E permission \in FirstPermission(u, contract_id) :
            IF ~check_contract_permission(users[u], contract_id, "full", permission)
              THEN Reply("delete_contract", u, contract_id, 403)
            ELSE /\ \E removed \in BOOLEAN :
                      files' = IF removed THEN files \ {contracts[contract_id].file_path}
                               ELSE files
                 /\ contracts' = [c \in DOMAIN contracts \ {contract_id} |-> contracts[c]]
                 /\ tagLinks' = {l \in tagLinks : l[1] # contract_id}
                 /\ resp' = Response("delete_contract", u, contract_id, 204)
                 /\ UNCHANGED <<users, tags, lists, listLinks, perms, audit, inflight>>

\* lines 568-585; os.remove may fail, which is printed and ignored
delete_contract(u, contract_id) ==
    /\ u \in DOMAIN users
    /\ IF ~Exists(contracts, contract_id)
         THEN Reply("delete_contract", u, contract_id, 404)
       ELSE \E permission \in FirstPermission(u, contract_id) :
            IF ~check_contract_permission(users[u], contract_id, "full", permission)
              THEN Reply("delete_contract", u, contract_id, 403)
            ELSE /\ \E removed \in BOOLEAN :
                      files' = IF removed THEN files \ {contracts[contract_id].file_path}
                               ELSE files
                 /\ contracts' = [c \in DOMAIN contracts \ {contract_id} |-> contracts[c]]
                 /\ tagLinks' = {l \in tagLinks : l[1] # contract_id}
                 /\ listLinks' = {l \in listLinks : l[1] # contract_id}
                 /\ resp' = Response("delete_contract", u, contract_id, 204)
                 /\ UNCHANGED <<users, tags, lists, perms, audit, inflight>>


\* ------------------------------------------------------------- update_contract
\* check_and_update without the comparison: every supplied value is a change
check_and_update_unconditional(contract, field_name, new_val) ==
    IF new_val = None THEN None
    ELSE IF field_name \in {"start_date", "end_date"}
      THEN Some(<<contract[field_name].date, Get(new_val).date>>)
    ELSE Some(<<contract[field_name],
                IF field_name = "description" THEN new_val ELSE Get(new_val)>>)

\* check_and_update (lines 462-478): None when the field is left alone, else the
\* pair <<old, new>> that goes into the diff summary
check_and_update(contract, field_name, new_val) ==
    IF new_val = None THEN None
    ELSE IF field_name \in {"start_date", "end_date"}
      THEN LET v1 == contract[field_name].date
               v2 == Get(new_val).date
           IN IF v1 # v2 THEN Some(<<v1, v2>>) ELSE None
    ELSE LET old_val == contract[field_name]
             new == IF field_name = "description" THEN new_val ELSE Get(new_val)
         IN IF old_val # new THEN Some(<<old_val, new>>) ELSE None

\* the value setattr stores
Stored(field_name, new_val) ==
    IF field_name = "description" THEN new_val ELSE Get(new_val)

\* the tag branch without the comparison: every supplied tag list is a change
tags_differ_unconditional(old_tags, new_tags) == TRUE
\* line 533: set(old_tags) != set(new_tags)
tags_differ(old_tags, new_tags) == old_tags # SeqToSet(new_tags)

Merge(f, g) == [x \in DOMAIN f \cup DOMAIN g |-> IF x \in DOMAIN f THEN f[x] ELSE g[x]]

\* a handler that takes every replacement file
FileVerdict_accept_all(file) == 0
\* lines 487-514: the status the replacement file is refused with (413 too
\* large, 400 unsupported type, 500 when writing it fails), 0 when there is
\* none or it was saved
FileVerdict(file) ==
    CASE file = Some("large") -> 413
      [] file = Some("badtype") -> 400
      [] file = Some("savefail") -> 500
      [] OTHER -> 0

\* lines 451-543 up to the first commit: lookup, permission check, field diffs,
\* the file swap on disk and the tag diff
update_contract_start(u, contract_id, req) ==
    /\ CanStart
    /\ u \in DOMAIN users
    /\ IF ~Exists(contracts, contract_id)
         THEN ReplyTo(req, u, contract_id, 404)
       ELSE \E permission \in FirstPermission(u, contract_id) :
         IF ~check_contract_permission(users[u], contract_id, "write", permission)
           THEN ReplyTo(req, u, contract_id, 403)
         ELSE IF FileVerdict(req.file) # 0
           THEN ReplyTo(req, u, contract_id, FileVerdict(req.file))
         ELSE
           LET contract == contracts[contract_id]
               changed == {f \in ScalarFields :
                              check_and_update(contract, f, req[f]) # None}
               field_changes == [f \in changed |->
                                   Get(check_and_update(contract, f, req[f]))]
               new_tags == IF req.tags = None THEN <<>> ELSE StripAll(Get(req.tags))
               old_tags == TagNamesOf(contract_id)
               retag == req.tags # None /\ tags_differ(old_tags, new_tags)
               file_changes == IF req.file # None
                                 THEN [f \in {"file"} |-> <<"updated">>]
                                 ELSE NoChanges
               tag_changes == IF retag
                                THEN [f \in {"tags"} |-> <<old_tags, new_tags>>]
                                ELSE NoChanges
               changes == Merge(field_changes, Merge(file_changes, tag_changes))
           IN
           IF DOMAIN changes = {}
             THEN ReplyTo(req, u, contract_id, 200)
           ELSE
             /\ RoomForAudit
             /\ IF req.file # None
                  THEN \E removed \in BOOLEAN :
                         /\ NewPath <= MaxFiles
                         /\ files' = (IF removed THEN files \ {contract.file_path}
                                   ELSE files) \cup {NewPath}
                  ELSE UNCHANGED files
             /\ inflight' = inflight \cup
                  {[rid |-> FreeRid, op |-> "update_contract",
                    pc |-> IF retag /\ new_tags # <<>> THEN "tags" ELSE "commit",
                    audits |-> TRUE, user |-> u, cid |-> contract_id,
                    req |-> req,
                    before |-> [row |-> contract, tags |-> old_tags],
                    changes |-> changes,
                    set |-> [f \in changed |-> Stored(f, req[f])],
                    new_file |-> IF req.file # None THEN Some(NewPath) ELSE None,
                    old_ids |-> IF retag THEN TagIdsOf(contract_id) ELSE {},
                    todo |-> IF retag THEN new_tags ELSE <<>>,
                    got |-> {}]}
             /\ UNCHANGED <<store, audit, resp>>

\* update_contract as the event loop of one server process starts it
update_contract_begin(u, contract_id, req) ==
    /\ LoopFree
    /\ update_contract_start(u, contract_id, req)

\* a flush that writes the description the form leaves out as its default
FlushedRow_default_description(row, r) ==
    [f \in DOMAIN row |->
        IF f \in DOMAIN r.set THEN r.set[f]
        ELSE IF f = "file_path" /\ r.new_file # None THEN Get(r.new_file)
        ELSE IF f = "description" THEN None
        ELSE row[f]]
\* a flush that writes the whole row as the request read it, not the changed
\* attributes alone
FlushedRow_whole_row(row, r) ==
    [f \in DOMAIN row |->
        IF f \in DOMAIN r.set THEN r.set[f]
        ELSE IF f = "file_path" /\ r.new_file # None THEN Get(r.new_file)
        ELSE r.before.row[f]]
\* the contract row after the UPDATE a flush emits for the request's pending
\* attribute changes
FlushedRow(row, r) ==
    [f \in DOMAIN row |->
        IF f \in DOMAIN r.set THEN r.set[f]
        ELSE IF f = "file_path" /\ r.new_file # None THEN Get(r.new_file)
        ELSE row[f]]
\* the link rows after the DELETEs and INSERTs a flush emits for contract.tags
FlushedLinks(r) ==
    (tagLinks \ {<<r.cid, t>> : t \in r.old_ids \ r.got})
        \cup {<<r.cid, t>> : t \in r.got}
Flushed(r) == [r EXCEPT !.set = NoChanges, !.new_file = None, !.old_ids = {}]

\* lines 539-542: a new tag is committed, and with it what the session holds
update_contract_newtag(r) ==
    /\ r \in inflight /\ r.op = "update_contract" /\ r.pc = "newtag"
    /\ IF TagInsertFails(Head(r.todo)) \/ ~Exists(contracts, r.cid)
         \* Tag.name is unique, or the contract row is gone: the commit fails
         THEN /\ Finish(r, 500)
              /\ UNCHANGED <<tags, contracts, tagLinks>>
         ELSE /\ tags' = [t \in DOMAIN tags \cup {NewId(DOMAIN tags)} |->
                            IF t \in DOMAIN tags THEN tags[t]
                            ELSE [name |-> Head(r.todo)]]
              /\ contracts' = [contracts EXCEPT ![r.cid] = FlushedRow(@, r)]
              /\ tagLinks' = FlushedLinks(r)
              /\ Advance(r, [Flushed(r) EXCEPT
                                !.got = @ \cup {NewId(DOMAIN tags)},
                                !.todo = Tail(@),
                                !.pc = IF Tail(r.todo) = <<>> THEN "commit"
                                       ELSE "tags"])
              /\ UNCHANGED resp
    /\ UNCHANGED <<users, lists, listLinks, perms, audit, files>>

\* lines 545-548
update_contract_commit(r) ==
    /\ r \in inflight /\ r.op = "update_contract" /\ r.pc = "commit"
    /\ IF ~Exists(contracts, r.cid)
         THEN /\ Finish(r, 500)
              /\ UNCHANGED <<contracts, tagLinks>>
         ELSE /\ contracts' = [contracts EXCEPT ![r.cid] = FlushedRow(@, r)]
              /\ tagLinks' = FlushedLinks(r)
              /\ Advance(r, [Flushed(r) EXCEPT !.pc = "audit"])
              /\ UNCHANGED resp
    /\ UNCHANGED <<users, tags, lists, listLinks, perms, audit, files>>

\* lines 550-558
update_contract_audit(r) ==
    /\ r \in inflight /\ r.op = "update_contract" /\ r.pc = "audit"
    /\ IF Exists(contracts, r.cid)
         THEN /\ log_audit(r.user, "UPDATE_CONTRACT", r.cid, "", r.changes)
              /\ Finish(r, 200)
         ELSE /\ Finish(r, 500)
              /\ UNCHANGED audit
    /\ UNCHANGED <<store, files>>

\* ------------------------------------------------------------- users (admin)
\* The usernames used: "admin", "testuser" and "bob" are made of letters, "ab"
\* is two letters long, "no good" holds a blank.
\* re.match(r'^[a-zA-Z0-9_-]+$', v)
username_pattern(v) == v \in {"admin", "testuser", "bob", "ab"}
\* len(v)
StrLen(v) == CASE v = "ab" -> 2 [] v = "bob" -> 3 [] v = "admin" -> 5
               [] v = "no good" -> 7 [] v = "testuser" -> 8
\* Field(min_length=3, max_length=32)
LengthOk(v) == 3 <= StrLen(v) /\ StrLen(v) <= 32
\* UserCreate: the length bounds and the pattern validator
UserCreateValid(user_data) ==
    LengthOk(user_data.username) /\ username_pattern(user_data.username)
\* UserUpdate: the length bounds on the username
UserUpdateValid(user_data) ==
    user_data.username # None => LengthOk(Get(user_data.username))
UserByName(name) == {u \in DOMAIN users : users[u].username = name}

\* create_user up to the lookup of the username (lines 786-789)
create_user_begin(u, user_data) ==
    /\ CanStart
    /\ u \in DOMAIN users
    /\ IF ~require_admin(users[u])
         THEN Reply("create_user", u, 0, 403)
       ELSE IF ~UserCreateValid(user_data)
         THEN Reply("create_user", u, 0, 422)
       ELSE IF UserByName(user_data.username) # {}
         THEN Reply("create_user", u, 0, 400)
       ELSE /\ RoomForAudit
            /\ NewId(DOMAIN users) + Cardinality({q \in inflight :
                   q.op = "create_user" /\ q.pc = "commit"}) <= MaxUsers
            /\ inflight' = inflight \cup
                 {[rid |-> FreeRid, op |-> "create_user", pc |-> "commit",
                   audits |-> TRUE, user |-> u, cid |-> 0,
                   username |-> user_data.username]}
            /\ UNCHANGED <<store, audit, files, resp>>

\* the insert and commit of lines 791-800; User.username is unique
create_user_commit(r) ==
    /\ r \in inflight /\ r.op = "create_user" /\ r.pc = "commit"
    /\ IF UserByName(r.username) # {}
         THEN /\ Finish(r, 500)
              /\ UNCHANGED users
         ELSE /\ users' = [x \in DOMAIN users \cup {NewId(DOMAIN users)} |->
                             IF x \in DOMAIN users THEN users[x]
                             ELSE [username |-> r.username, role |-> "user",
                                   is_active |-> TRUE]]
              /\ Advance(r, [r EXCEPT !.pc = "audit"])
              /\ UNCHANGED resp
    /\ UNCHANGED <<contracts, tags, tagLinks, lists, listLinks, perms, audit, files>>

\* the log_audit call of line 802
create_user_audit(r) ==
    /\ r \in inflight /\ r.op = "create_user" /\ r.pc = "audit"
    /\ log_audit(r.user, "CREATE_USER", 0, r.username, NoChanges)
    /\ Finish(r, 200)
    /\ UNCHANGED <<store, files>>

\* no field of a UserUpdate supplied
NoUserUpdate == [username |-> None, password |-> None, role |-> None,
                 is_active |-> None]
\* update_user up to the commit (lines 823-851): the attributes it sets and
\* the diff summary; a password is one of None, "short" (under 8 characters)
\* and "secret99"
update_user_begin(u, user_id, user_data) ==
    /\ CanStart
    /\ u \in DOMAIN users
    /\ IF ~require_admin(users[u])
         THEN Reply("update_user", u, 0, 403)
       ELSE IF ~UserUpdateValid(user_data) \/ user_data.password = Some("short")
         THEN Reply("update_user", u, 0, 422)
       ELSE IF ~Exists(users, user_id)
         THEN Reply("update_user", u, 0, 404)
       ELSE
         LET user == users[user_id]
             rename == user_data.username # None
                         /\ Get(user_data.username) # user.username
             rerole == user_data.role # None /\ Get(user_data.role) # user.role
             toggle == user_data.is_active # None
                         /\ Get(user_data.is_active) # user.is_active
             set == Merge(IF rename THEN [f \in {"username"} |-> Get(user_data.username)]
                          ELSE NoChanges,
                    Merge(IF rerole THEN [f \in {"role"} |-> Get(user_data.role)]
                          ELSE NoChanges,
                          IF toggle THEN [f \in {"is_active"} |-> Get(user_data.is_active)]
                          ELSE NoChanges))
         IN
         IF rename /\ UserByName(Get(user_data.username)) # {}
           THEN Reply("update_user", u, 0, 400)
         ELSE IF rerole /\ Get(user_data.role) \notin {"admin", "user"}
           THEN Reply("update_user", u, 0, 400)
         ELSE IF DOMAIN set = {} /\ user_data.password = None
           THEN Reply("update_user", u, 0, 200)
         ELSE /\ RoomForAudit
              /\ inflight' = inflight \cup
                   {[rid |-> FreeRid, op |-> "update_user", pc |-> "commit",
                     audits |-> TRUE, user |-> u, cid |-> 0,
                     target |-> user_id, set |-> set]}
              /\ UNCHANGED <<store, audit, files, resp>>

\* the commit of lines 853-856: an UPDATE of the attributes set; it fails on
\* the unique username
update_user_commit(r) ==
    /\ r \in inflight /\ r.op = "update_user" /\ r.pc = "commit"
    /\ IF "username" \in DOMAIN r.set
            /\ UserByName(r.set.username) \ {r.target} # {}
         THEN /\ Finish(r, 500)
              /\ UNCHANGED users
         ELSE /\ users' = [users EXCEPT ![r.target] =
                             [f \in DOMAIN @ |->
                                 IF f \in DOMAIN r.set THEN r.set[f] ELSE @[f]]]
              /\ Advance(r, [r EXCEPT !.pc = "audit"])
              /\ UNCHANGED resp
    /\ UNCHANGED <<contracts, tags, tagLinks, lists, listLinks, perms, audit, files>>

\* the log_audit call of line 857
update_user_audit(r) ==
    /\ r \in inflight /\ r.op = "update_user" /\ r.pc = "audit"
    /\ log_audit(r.user, "UPDATE_USER", 0, users[r.target].username, NoChanges)
    /\ Finish(r, 200)
    /\ UNCHANGED <<store, files>>

\* delete_user deleting the row
delete_user_begin_hard(u, user_id) ==
    /\ CanStart
    /\ u \in DOMAIN users
    /\ IF ~require_admin(users[u])
         THEN Reply("delete_user", u, 0, 403)
       ELSE IF ~Exists(users, user_id)
         THEN Reply("delete_user", u, 0, 404)
       ELSE IF user_id = u
         THEN Reply("delete_user", u, 0, 400)
       ELSE /\ users' = [x \in DOMAIN users \ {user_id} |-> users[x]]
            /\ resp' = Response("delete_user", u, 0, 204)
            /\ UNCHANGED <<contracts, tags, tagLinks, lists, listLinks, perms,
                           audit, files, inflight>>

\* delete_user up to its commit (lines 876-887): the row is kept and marked
delete_user_begin(u, user_id) ==
    /\ CanStart
    /\ u \in DOMAIN users
    /\ IF ~require_admin(users[u])
         THEN Reply("delete_user", u, 0, 403)
       ELSE IF ~Exists(users, user_id)
         THEN Reply("delete_user", u, 0, 404)
       ELSE IF user_id = u
         THEN Reply("delete_user", u, 0, 400)
       ELSE /\ RoomForAudit
            /\ users' = [users EXCEPT ![user_id].is_active = FALSE]
            /\ inflight' = inflight \cup
                 {[rid |-> FreeRid, op |-> "delete_user", pc |-> "audit",
                   audits |-> TRUE, user |-> u, cid |-> 0, target |-> user_id]}
            /\ UNCHANGED <<contracts, tags, tagLinks, lists, listLinks, perms,
                           audit, files, resp>>

\* the log_audit call of line 889
delete_user_audit(r) ==
    /\ r \in inflight /\ r.op = "delete_user" /\ r.pc = "audit"
    /\ log_audit(r.user, "DEACTIVATE_USER", 0, users[r.target].username, NoChanges)
    /\ Finish(r, 204)
    /\ UNCHANGED <<store, files>>

\* the listings of users and permission rows
list_users(u) ==
    /\ u \in DOMAIN users
    /\ Reply("list_users", u, 0, IF require_admin(users[u]) THEN 200 ELSE 403)
list_permissions(u) ==
    /\ u \in DOMAIN users
    /\ Reply("list_permissions", u, 0, IF require_admin(users[u]) THEN 200 ELSE 403)
get_user_permissions(u, user_id) ==
    /\ u \in DOMAIN users
    /\ Reply("get_user_permissions", u, 0,
             IF require_admin(users[u]) THEN 200 ELSE 403)

\* ------------------------------------------------------------- tags (admin)
\* create_tag up to the lookup of the name (lines 612-615); TagCreate asks for
\* a name of 1 to 50 characters; the colour of a tag is not modelled
create_tag_begin(u, tag_data) ==
    /\ CanStart
    /\ u \in DOMAIN users
    /\ IF ~require_admin(users[u])
         THEN Reply("create_tag", u, 0, 403)
       ELSE IF tag_data.name = ""
         THEN Reply("create_tag", u, 0, 422)
       ELSE IF TagByName(tag_data.name) # {}
         THEN Reply("create_tag", u, 0, 400)
       ELSE /\ RoomForAudit
            /\ inflight' = inflight \cup
                 {[rid |-> FreeRid, op |-> "create_tag", pc |-> "commit",
                   audits |-> TRUE, user |-> u, cid |-> 0, name |-> tag_data.name]}
            /\ UNCHANGED <<store, audit, files, resp>>

\* the insert and commit of lines 617-620; Tag.name is unique
create_tag_commit(r) ==
    /\ r \in inflight /\ r.op = "create_tag" /\ r.pc = "commit"
    /\ IF TagInsertFails(r.name)
         THEN /\ Finish(r, 500)
              /\ UNCHANGED tags
         ELSE /\ tags' = [t \in DOMAIN tags \cup {NewId(DOMAIN tags)} |->
                            IF t \in DOMAIN tags THEN tags[t] ELSE [name |-> r.name]]
              /\ Advance(r, [r EXCEPT !.pc = "audit"])
              /\ UNCHANGED resp
    /\ UNCHANGED <<users, contracts, tagLinks, lists, listLinks, perms, audit, files>>

\* the log_audit call of line 622
create_tag_audit(r) ==
    /\ r \in inflight /\ r.op = "create_tag" /\ r.pc = "audit"
    /\ log_audit(r.user, "CREATE_TAG", 0, r.name, NoChanges)
    /\ Finish(r, 201)
    /\ UNCHANGED <<store, files>>

\* update_tag up to the commit (lines 634-650), for a TagUpdate with a name
update_tag_begin(u, tag_id, tag_data) ==
    /\ CanStart
    /\ u \in DOMAIN users
    /\ IF ~require_admin(users[u])
         THEN Reply("update_tag", u, 0, 403)
       ELSE IF tag_data.name = Some("")
         THEN Reply("update_tag", u, 0, 422)
       ELSE IF ~Exists(tags, tag_id)
         THEN Reply("update_tag", u, 0, 404)
       ELSE IF tag_data.name = None \/ Get(tag_data.name) = tags[tag_id].name
         THEN Reply("update_tag", u, 0, 200)
       ELSE IF TagByName(Get(tag_data.name)) # {}
         THEN Reply("update_tag", u, 0, 400)
       ELSE /\ RoomForAudit
            /\ inflight' = inflight \cup
                 {[rid |-> FreeRid, op |-> "update_tag", pc |-> "commit",
                   audits |-> TRUE, user |-> u, cid |-> 0, tag_id |-> tag_id,
                   name |-> Get(tag_data.name)]}
            /\ UNCHANGED <<store, audit, files, resp>>

\* the commit of lines 652-654: it fails on the unique name and when the row
\* was deleted since
update_tag_commit(r) ==
    /\ r \in inflight /\ r.op = "update_tag" /\ r.pc = "commit"
    /\ IF ~Exists(tags, r.tag_id) \/ TagByName(r.name) # {}
         THEN /\ Finish(r, 500)
              /\ UNCHANGED tags
         ELSE /\ tags' = [tags EXCEPT ![r.tag_id].name = r.name]
              /\ Advance(r, [r EXCEPT !.pc = "audit"])
              /\ UNCHANGED resp
    /\ UNCHANGED <<users, contracts, tagLinks, lists, listLinks, perms, audit, files>>

\* the log_audit call of line 655
update_tag_audit(r) ==
    /\ r \in inflight /\ r.op = "update_tag" /\ r.pc = "audit"
    /\ log_audit(r.user, "UPDATE_TAG", 0, r.name, NoChanges)
    /\ Finish(r, 200)
    /\ UNCHANGED <<store, files>>

\* delete_tag without the delete of the links
delete_tag_begin_keep_links(u, tag_id) ==
    /\ CanStart
    /\ u \in DOMAIN users
    /\ IF ~require_admin(users[u])
         THEN Reply("delete_tag", u, 0, 403)
       ELSE IF ~Exists(tags, tag_id)
         THEN Reply("delete_tag", u, 0, 404)
       ELSE /\ RoomForAudit
            /\ tags' = [t \in DOMAIN tags \ {tag_id} |-> tags[t]]
            /\ inflight' = inflight \cup
                 {[rid |-> FreeRid, op |-> "delete_tag", pc |-> "audit",
                   audits |-> TRUE, user |-> u, cid |-> 0,
                   tag_id |-> tag_id, tag_name |-> tags[tag_id].name]}
            /\ UNCHANGED <<users, contracts, tagLinks, lists, listLinks, perms,
                           audit, files, resp>>

\* delete_tag: lookup, delete of the links and the tag, commit (lines 668-680);
\* the tag name goes into the detail text in the place AuditRow calls title
delete_tag_begin(u, tag_id) ==
    /\ CanStart
    /\ u \in DOMAIN users
    /\ IF ~require_admin(users[u])
         THEN Reply("delete_tag", u, 0, 403)
       ELSE IF ~Exists(tags, tag_id)
         THEN Reply("delete_tag", u, 0, 404)
       ELSE /\ RoomForAudit
            /\ tagLinks' = {l \in tagLinks : l[2] # tag_id}
            /\ tags' = [t \in DOMAIN tags \ {tag_id} |-> tags[t]]
            /\ inflight' = inflight \cup
                 {[rid |-> FreeRid, op |-> "delete_tag", pc |-> "audit",
                   audits |-> TRUE, user |-> u, cid |-> 0,
                   tag_id |-> tag_id, tag_name |-> tags[tag_id].name]}
            /\ UNCHANGED <<users, contracts, lists, listLinks, perms, audit,
                           files, resp>>

\* the log_audit call of line 682
delete_tag_audit(r) ==
    /\ r \in inflight /\ r.op = "delete_tag" /\ r.pc = "audit"
    /\ inflight' = inflight \ {r}
    /\ log_audit(r.user, "DELETE_TAG", 0, r.tag_name, NoChanges)
    /\ resp' = Response(r.op, r.user, 0, 204)
    /\ UNCHANGED <<store, files>>

\* ------------------------------------------------------------- list membership
\* the select of the existing link and the insert are one step: two requests
\* racing between them end with the same link row (the second insert fails on
\* the primary key)
add_contract_to_list(u, list_id, contract_id) ==
    /\ u \in DOMAIN users
    /\ IF list_id \notin lists
         THEN Reply("add_contract_to_list", u, contract_id, 404)
       ELSE IF ~Exists(contracts, contract_id)
         THEN Reply("add_contract_to_list", u, contract_id, 404)
       ELSE IF <<contract_id, list_id>> \in listLinks
         THEN Reply("add_contract_to_list", u, contract_id, 400)
       ELSE /\ listLinks' = listLinks \cup {<<contract_id, list_id>>}
            /\ resp' = Response("add_contract_to_list", u, contract_id, 201)
            /\ UNCHANGED <<users, contracts, tags, tagLinks, lists, perms, audit,
                           files, inflight>>

remove_contract_from_list(u, list_id, contract_id) ==
    /\ u \in DOMAIN users
    /\ IF <<contract_id, list_id>> \notin listLinks
         THEN Reply("remove_contract_from_list", u, contract_id, 404)
       ELSE /\ listLinks' = listLinks \ {<<contract_id, list_id>>}
            /\ resp' = Response("remove_contract_from_list", u, contract_id, 200)
            /\ UNCHANGED <<users, contracts, tags, tagLinks, lists, perms, audit,
                           files, inflight>>

\* ------------------------------------------------------------- audit feeds
RECURSIVE Reverse(_)
Reverse(sq) == IF sq = <<>> THEN <<>> ELSE Append(Reverse(Tail(sq)), Head(sq))
\* the contract ids n whose marker "[CID:n]" occurs in a text
MarkersIn(text) ==
    CASE text = "[CID:1]" -> {1}
      [] text = "[CID:2]" -> {2}
      [] OTHER -> {}
\* the texts of a diff summary: the old and new title and description
ChangeTexts(changes) ==
    (IF "title" \in DOMAIN changes
       THEN {changes["title"][1], changes["title"][2]} ELSE {})
    \cup (IF "description" \in DOMAIN changes
            THEN changes["description"][1] \cup changes["description"][2] ELSE {})
\* AuditLog.details.like("%[CID:n]%"): the marker of contract n occurs
\* somewhere in the detail text, as its prefix or inside an interpolated
\* title or value
DetailsLike(details, contract_id) ==
    contract_id \in {details.marker} \cup MarkersIn(details.title)
                      \cup UNION {MarkersIn(t) : t \in ChangeTexts(details.changes)}
\* the response of a feed: the entries, newest first
Feed(op, user, cid, status, logs) ==
    [op |-> op, user |-> user, cid |-> cid, status |-> status, logs |-> logs]

\* the newest 100 entries; the log holds MaxAudit entries at most
get_audit_logs(u) ==
    /\ u \in DOMAIN users
    /\ resp' = IF users[u].role # "admin"
                THEN Feed("get_audit_logs", u, 0, 403, <<>>)
                ELSE Feed("get_audit_logs", u, 0, 200, Reverse(audit))
    /\ UNCHANGED <<store, audit, files, inflight>>

get_contract_audit_logs(u, contract_id) ==
    /\ u \in DOMAIN users
    /\ resp' = Feed("get_contract_audit_logs", u, contract_id, 200,
                    Reverse(SelectSeq(audit,
                        LAMBDA e : DetailsLike(e.details, contract_id))))
    /\ UNCHANGED <<store, audit, files, inflight>>

\* ------------------------------------------------------------- contract query
\* str.lower() of the one-letter texts used
Lower(t) == CASE t = "A" -> "a" [] t = "B" -> "b" [] t = "D" -> "d" [] OTHER -> t
\* column.ilike("%q%") for one-letter texts
ilike(column, q) == Lower(column) = Lower(q)
\* no filter at all
NoFilter == [q |-> None, tags |-> None, list_id |-> None, min_value |-> None,
             max_value |-> None, start_date_from |-> None, start_date_to |-> None,
             status |-> None, now |-> DateTime(1, 0)]
\* datetime comparison
Before(a, b) == a.date < b.date \/ (a.date = b.date /\ a.time < b.time)
\* the WHERE clauses and joins of lines 258-291 for contract c; flt.tags
\* holds the comma-separated pieces of the tags parameter, flt.now the clock
Selected(c, flt) ==
    LET row == contracts[c]
        tag_list == IF flt.tags = None THEN <<>> ELSE StripAll(Get(flt.tags))
    IN  /\ (flt.q # None /\ Get(flt.q) # "") =>
              \/ ilike(row.title, Get(flt.q))
              \* a NULL description matches nothing
              \/ row.description # None /\ ilike(Get(row.description), Get(flt.q))
        /\ tag_list # <<>> =>
              \E l \in tagLinks :
                 /\ l[1] = c /\ l[2] \in DOMAIN tags
                 /\ tags[l[2]].name \in SeqToSet(tag_list)
        /\ flt.list_id # None => <<c, Get(flt.list_id)>> \in listLinks
        /\ flt.min_value # None => row.value >= Get(flt.min_value)
        /\ flt.max_value # None => row.value <= Get(flt.max_value)
        /\ flt.start_date_from # None => ~Before(row.start_date, Get(flt.start_date_from))
        /\ flt.start_date_to # None => ~Before(Get(flt.start_date_to), row.start_date)
        /\ flt.status = Some("active") => ~Before(row.end_date, flt.now)
        /\ flt.status = Some("expired") => Before(row.end_date, flt.now)
\* a query that returns to a user the contracts the user holds a row on
ContractQuery_granted_only(current_user, permissions, flt) ==
    {c \in DOMAIN contracts :
        /\ Selected(c, flt)
        /\ \/ current_user.role = "admin"
           \/ \E p \in permissions :
                 p.contract_id = c /\ users[p.user_id] = current_user}
\* the WHERE clauses on the columns of contract c (lines 258-265, 278-293)
Where(c, flt) ==
    Selected(c, [flt EXCEPT !.tags = None, !.list_id = None])
\* the rows of the joins with ContractTagLink and Tag that pass
\* Tag.name.in_(tag_list), for contract c (lines 268-271)
TagJoin(c, flt) ==
    LET tag_list == IF flt.tags = None THEN <<>> ELSE StripAll(Get(flt.tags))
    IN  {l \in tagLinks : /\ l[1] = c /\ l[2] \in DOMAIN tags
                          /\ tags[l[2]].name \in SeqToSet(tag_list)}
\* the rows of the join with ContractListLink for contract c (lines 274-275)
ListJoin(c, flt) == {l \in listLinks : l[1] = c /\ l[2] = Get(flt.list_id)}
\* The rows of the joined statement as a bag of contract ids: a contract
\* comes once for every combination of joined link rows.
JoinedRows(flt) ==
    LET tag_list == IF flt.tags = None THEN <<>> ELSE StripAll(Get(flt.tags))
        copies(c) ==
            IF ~Where(c, flt) THEN 0
            ELSE (IF tag_list = <<>> THEN 1 ELSE Cardinality(TagJoin(c, flt)))
                 * (IF flt.list_id = None THEN 1 ELSE Cardinality(ListJoin(c, flt)))
    IN  [c \in {x \in DOMAIN contracts : copies(x) > 0} |-> copies(c)]
\* a statement that keeps the duplicates of its joins
distinct_keep_duplicates(rows) == rows
\* statement.distinct() (line 312)
distinct(rows) == SetToBag(BagToSet(rows))
\* The rows the statement of read_contracts returns to a caller, given the
\* ContractPermission rows its session can read, as a bag of contract ids.
\* The order of the rows (sort_by, sort_order) is not modelled.
ContractRows(current_user, permissions, flt) == distinct(JoinedRows(flt))
\* the contracts among the rows returned
ContractQuery(current_user, permissions, flt) ==
    BagToSet(ContractRows(current_user, permissions, flt))

read_contracts(u, flt) ==
    /\ u \in DOMAIN users
    /\ resp' = [op |-> "read_contracts", user |-> u, cid |-> 0, status |-> 200,
                flt |-> flt, rows |-> ContractQuery(users[u], perms, flt),
                result |-> ContractRows(users[u], perms, flt)]
    /\ UNCHANGED <<store, audit, files, inflight>>

\* ------------------------------------------------------------- the process dies
Crash ==
    /\ inflight # {}
    /\ inflight' = {}
    \* lost: the requests that had committed their mutation and not yet their
    \* audit row
    /\ resp' = [op |-> "crash", user |-> 0, cid |-> 0, status |-> 0,
                lost |-> {[op |-> q.op, cid |-> q.cid] :
                             q \in {x \in inflight : x.pc = "audit"}}]
    /\ UNCHANGED <<store, audit, files>>

\* ------------------------------------------------------------- the system
\* the users table: the admin on_startup creates and one user the admin created
SeededUsers ==
    [id \in UserIds |->
        IF id = 1 THEN [username |-> "admin", role |-> "admin", is_active |-> TRUE]
        ELSE [username |-> "testuser", role |-> "user", is_active |-> TRUE]]

\* the tags on_startup creates
DefaultTags == <<[name |-> "Software"], [name |-> "Hardware"], [name |-> "Legal"],
                 [name |-> "HR"]>>

\* a database that holds no contract yet
Init ==
    /\ users = SeededUsers
    /\ contracts = <<>>
    /\ tags = DefaultTags
    /\ tagLinks = {}
    /\ lists = {}
    /\ listLinks = {}
    /\ perms = {}
    /\ audit = <<>>
    /\ files = {}
    /\ inflight = {}
    /\ resp = Response("startup", 0, 0, 0)

NoRequest == [title |-> None, description |-> None, start_date |-> None,
              end_date |-> None, value |-> None, notice_period |-> None,
              tags |-> None, file |-> None]
\* the forms and update requests the contract lifecycle is driven with
CoreForms == [title : {"A"}, description : {None}, start_date : {DateTime(1, 0)},
              end_date : {DateTime(2, 0)}, value : {0}, notice_period : {30},
              tags : {<<"Legal">>, <<"Tax">>}, file : {"ok", "large"}]
CoreUpdates == {NoRequest,
                [NoRequest EXCEPT !.title = Some("B")],
                [NoRequest EXCEPT !.tags = Some(<<"Tax">>)],
                [NoRequest EXCEPT !.file = Some("ok")]}

\* the contract lifecycle, with the process dying at any point
Next ==
    \/ \E u \in UserIds, form \in CoreForms : create_contract_begin(u, form)
    \/ \E r \in inflight : find_tag(r)
    \/ \E r \in inflight : create_contract_newtag(r)
    \/ \E r \in inflight : create_contract_commit(r)
    \/ \E r \in inflight : create_contract_audit(r)
    \/ \E u \in UserIds, c \in ContractIds, req \in CoreUpdates :
          update_contract_begin(u, c, req)
    \/ \E r \in inflight : update_contract_newtag(r)
    \/ \E r \in inflight : update_contract_commit(r)
    \/ \E r \in inflight : update_contract_audit(r)
    \/ \E u \in UserIds, c \in ContractIds : download_contract(u, c)
    \/ \E u \in UserIds, c \in ContractIds : delete_contract(u, c)
    \/ Crash

Spec == Init /\ [][Next]_vars

\* ------------------------------------------------------------- claims: mutation and audit
\* the actions the lifecycle operations log
LifecycleActions == {"UPLOAD", "UPDATE_CONTRACT", "CREATE_PERMISSION",
                     "UPDATE_PERMISSION", "DELETE_PERMISSION"}
\* this step commits a change of a Contract, Tag, link or Permission row
MutationCommitted ==
    \/ contracts' # contracts
    \/ tags' # tags
    \/ tagLinks' # tagLinks
    \/ perms' # perms
\* this step commits one audit row of a lifecycle operation
LifecycleAuditCommitted ==
    /\ Len(audit') = Len(audit) + 1
    /\ audit'[Len(audit')].action \in LifecycleActions
\* this step commits one audit row that carries the marker of contract c
MarkedEntryAppended(c) ==
    /\ Len(audit') = Len(audit) + 1
    /\ audit'[Len(audit')].details.marker = c

\* C7: the mutation of a lifecycle operation and its audit row are committed
\* together, in one transaction: no step commits one without the other, so no
\* state (a crash between the two included) holds one without the other.
C7_MutationAndAuditInOneTransaction ==
    [][MutationCommitted <=> LifecycleAuditCommitted]_vars
\* the process died with a request between its two commits: the contract row
\* is stored, nothing is in progress and the audit log is empty
C7_Witness ==
    /\ resp.op = "crash"
    /\ inflight = {}
    /\ DOMAIN contracts # {}
    /\ audit = <<>>

\* C8: the step that completes a successful contract-mutating operation
\* (create_contract, update_contract with a change, delete_contract) appends an
\* audit row that carries the contract's id marker.
C8_MutationsAreMarkedInAudit ==
    [][\A c \in ContractIds :
          (\/ /\ \E u \in UserIds : delete_contract(u, c)
              /\ c \in DOMAIN contracts /\ c \notin DOMAIN contracts'
           \/ \E r \in inflight :
                 /\ r.op \in AsyncOps /\ r.cid = c /\ r.pc = "audit"
                 /\ create_contract_audit(r) \/ update_contract_audit(r)
                 /\ resp'.status = 200)
          => MarkedEntryAppended(c)]_vars
\* contract 1 was uploaded and audited, then deleted: the log still ends with
\* the upload
C8_Witness ==
    /\ resp = Response("delete_contract", 1, 1, 204)
    /\ Len(audit) = 1 /\ audit[1].action = "UPLOAD"
    /\ DOMAIN contracts = {}

\* ------------------------------------------------------------- permission administration
\* a database that holds one uploaded contract, tagged "Legal"
SeededContract == [title |-> "A", description |-> None,
                   start_date |-> DateTime(1, 0), end_date |-> DateTime(2, 0),
                   value |-> 0, notice_period |-> 30, file_path |-> 1]
InitSeeded ==
    /\ users = SeededUsers
    /\ contracts = [c \in {1} |-> SeededContract]
    /\ tags = DefaultTags
    /\ tagLinks = {<<1, 3>>}
    /\ lists = {}
    /\ listLinks = {}
    /\ perms = {}
    /\ audit = <<>>
    /\ files = {1}
    /\ inflight = {}
    /\ resp = Response("startup", 0, 0, 0)

NextPerm ==
    \/ \E u \in UserIds, perm_data \in PermData : create_permission_begin(u, perm_data)
    \/ \E r \in inflight : create_permission_commit(r)
    \/ \E r \in inflight : create_permission_audit(r)
    \/ \E u \in UserIds, permission_id \in 1..MaxPerms :
          delete_permission_begin(u, permission_id)
    \/ \E r \in inflight : delete_permission_audit(r)

SpecPerm == InitSeeded /\ [][NextPerm]_vars

\* ------------------------------------------------------------- claims: permission rows
\* C4: whatever create_permission and delete_permission requests ran, and
\* however they interleaved, there is at most one ContractPermission row per
\* (user_id, contract_id) pair.
C4_OneRowPerUserAndContract ==
    \A p \in perms, q \in perms :
       (p.user_id = q.user_id /\ p.contract_id = q.contract_id) => p = q
\* two create_permission requests for user 2 and contract 1 have both inserted
C4_Witness ==
    /\ Cardinality(PermissionRows(2, 1)) = 2
    /\ inflight = {}
    /\ Len(audit) = 2
    /\ \A i \in 1..2 : audit[i].action = "CREATE_PERMISSION"

\* ------------------------------------------------------------- the gated endpoints
\* The permission tables create_permission and delete_permission leave behind
\* for contract 1: rows 1..n, each for either user at any level (two rows of one
\* user come from two create_permission requests that both found no row).
\* Tables that differ only in which row holds which id are taken once.
RowOrder(p) == 3 * p.user_id + level_hierarchy(p.permission_level)
PermTables ==
    UNION {{{[id |-> i, user_id |-> f[i].user_id, contract_id |-> 1,
              permission_level |-> f[i].permission_level] : i \in 1..n} :
            f \in {g \in [1..n -> [user_id : UserIds, permission_level : Levels]] :
                      \A i \in 1..n, j \in 1..n :
                          i <= j => RowOrder(g[i]) <= RowOrder(g[j])}} :
           n \in 0..MaxPerms}

InitGate ==
    /\ users = SeededUsers
    /\ contracts = [c \in {1} |-> SeededContract]
    /\ tags = DefaultTags
    /\ tagLinks = {<<1, 3>>}
    /\ lists = {1}
    /\ listLinks = {<<1, 1>>}
    /\ perms \in PermTables
    /\ audit = <<>>
    /\ files = {1}
    /\ inflight = {}
    /\ resp = Response("startup", 0, 0, 0)

\* the update the gated endpoint is asked for: a new title and no tags
GateUpdates == {[NoRequest EXCEPT !.title = Some("B"), !.tags = Some(<<"">>)]}

NextGate ==
    \/ \E u \in UserIds, c \in ContractIds, req \in GateUpdates :
          update_contract_begin(u, c, req)
    \/ \E r \in inflight : update_contract_commit(r)
    \/ \E r \in inflight : update_contract_audit(r)
    \/ \E u \in UserIds, c \in ContractIds : download_contract(u, c)
    \/ \E u \in UserIds, c \in ContractIds : delete_contract(u, c)

SpecGate == InitGate /\ [][NextGate]_vars

\* ------------------------------------------------------------- claims: the evaluator
IsAdmin(u) == users[u].role = "admin"
\* the level each gated endpoint asks the evaluator for
RequiredLevel(op) ==
    CASE op = "download_contract" -> "read"
      [] op = "update_contract" -> "write"
      [] op = "delete_contract" -> "full"
GateOps == {"download_contract", "update_contract", "delete_contract"}
\* user u's request op on contract c is answered in this step
GateStep(op, u, c) ==
    \/ op = "download_contract" /\ download_contract(u, c)
    \/ op = "update_contract" /\ \E req \in GateUpdates : update_contract_begin(u, c, req)
    \/ op = "delete_contract" /\ delete_contract(u, c)
\* the step answers at once, with 403
Refused == inflight' = inflight /\ resp'.status = 403
\* rank as the claims state it
Rank(level) == CASE level = "read" -> 1 [] level = "write" -> 2 [] level = "full" -> 3
\* every row user u holds on contract c has this level, and there is one
HoldsLevel(u, c, level) ==
    /\ PermissionRows(u, c) # {}
    /\ \A p \in PermissionRows(u, c) : p.permission_level = level

\* C1: for an admin the evaluator returns true for every contract and every
\* required level, whatever row the lookup returns (a read row included), and
\* no gated endpoint answers an admin with 403.
C1_AdminAlwaysAllowed ==
    /\ [](\A u \in UserIds, c \in ContractIds, required \in Levels :
            IsAdmin(u) =>
              \A permission \in FirstPermission(u, c) :
                 check_contract_permission(users[u], c, required, permission))
    /\ [][\A u \in UserIds, c \in ContractIds, op \in GateOps :
            ~(IsAdmin(u) /\ Refused /\ GateStep(op, u, c))]_vars
\* the admin holds a read row on contract 1 and has just deleted the contract
C1_Witness ==
    /\ \E p \in perms : p.user_id = 1 /\ p.contract_id = 1
                          /\ p.permission_level = "read"
    /\ resp = Response("delete_contract", 1, 1, 204)

\* C2: for a non-admin user without a permission row on a contract the
\* evaluator returns true for every required level, and no gated endpoint
\* answers that user with 403 on that contract.
C2_NoRowMeansFullAccess ==
    /\ [](\A u \in UserIds, c \in ContractIds, required \in Levels :
            (~IsAdmin(u) /\ PermissionRows(u, c) = {}) =>
              \A permission \in FirstPermission(u, c) :
                 check_contract_permission(users[u], c, required, permission))
    /\ [][\A u \in UserIds, c \in ContractIds, op \in GateOps :
            ~(~IsAdmin(u) /\ PermissionRows(u, c) = {} /\ Refused
                /\ GateStep(op, u, c))]_vars
\* the user holds no row on contract 1 and has just deleted the contract
C2_Witness ==
    /\ PermissionRows(2, 1) = {}
    /\ perms # {}
    /\ resp = Response("delete_contract", 2, 1, 204)

\* C3: for a non-admin user and a row of level L that the lookup returns, the
\* evaluator returns true exactly when rank(L) >= rank(required); an endpoint
\* answers a user all of whose rows on the contract have level L with 403
\* exactly when rank(L) is below the rank of the level the endpoint requires
\* (no step of the endpoint refuses with a sufficient rank or goes on with an
\* insufficient one).
C3_RowLevelDecides ==
    /\ [](\A u \in UserIds, c \in ContractIds, required \in Levels :
            ~IsAdmin(u) =>
              \A permission \in FirstPermission(u, c) :
                 permission # None =>
                   (check_contract_permission(users[u], c, required, permission)
                      <=> Rank(Get(permission).permission_level) >= Rank(required)))
    /\ [][\A u \in UserIds, c \in DOMAIN contracts, op \in GateOps, L \in Levels :
            (~IsAdmin(u) /\ HoldsLevel(u, c, L)
               /\ (Refused <=> Rank(L) >= Rank(RequiredLevel(op))))
              => ~GateStep(op, u, c)]_vars
\* the user's row is a write row: an update went through and is audited, and
\* the delete that followed was refused
C3_Witness ==
    /\ HoldsLevel(2, 1, "write")
    /\ \E i \in 1..Len(audit) :
          audit[i].user_id = 2 /\ audit[i].action = "UPDATE_CONTRACT"
    /\ resp = Response("delete_contract", 2, 1, 403)

\* C5: update_contract by a non-admin user whose rows on the contract are read
\* rows is answered 403 and changes no table, no file and no audit row; the
\* same user's download is not refused.
C5_ReadOnlyCannotUpdate ==
    [][\A u \in UserIds, c \in DOMAIN contracts :
          (~IsAdmin(u) /\ HoldsLevel(u, c, "read")) =>
             /\ \A req \in GateUpdates :
                   update_contract_begin(u, c, req) =>
                      /\ resp' = ResponseTo(req, u, c, 403)
                      /\ UNCHANGED <<store, audit, files, inflight>>
             /\ download_contract(u, c) =>
                   /\ resp'.status # 403
                   /\ contracts[c].file_path \in files =>
                         /\ resp' = Response("download_contract", u, c, 200)
                         /\ audit' = Append(audit, AuditRow(u, "DOWNLOAD", c,
                                               contracts[c].title, NoChanges))]_vars
\* the read-only user has downloaded the contract and was then refused an update
\* that names a new title and clears the tags; the contract is as it was
C5_Witness ==
    /\ HoldsLevel(2, 1, "read")
    /\ \E i \in 1..Len(audit) : audit[i].user_id = 2 /\ audit[i].action = "DOWNLOAD"
    /\ resp.op = "update_contract" /\ resp.user = 2 /\ resp.status = 403
    /\ resp.req.title = Some("B") /\ resp.req.tags # None
    /\ contracts[1] = SeededContract /\ TagNamesOf(1) = {"Legal"} /\ files = {1}

\* C6: delete_contract removes the contract only for a caller who evaluates to
\* full (an admin, a user without a row, a user with a full row); a non-admin
\* user whose rows are read or write rows is answered 403 and the contract row,
\* its links and its file stay.
C6_DeleteNeedsFull ==
    [][\A u \in UserIds, c \in DOMAIN contracts :
          /\ (delete_contract(u, c) /\ c \notin DOMAIN contracts') =>
                \/ IsAdmin(u)
                \/ PermissionRows(u, c) = {}
                \/ \E p \in PermissionRows(u, c) : p.permission_level = "full"
          /\ \A L \in {"read", "write"} :
                (~IsAdmin(u) /\ HoldsLevel(u, c, L) /\ delete_contract(u, c)) =>
                   /\ resp' = Response("delete_contract", u, c, 403)
                   /\ UNCHANGED <<store, audit, files, inflight>>]_vars
\* the user with a write row was refused the delete: row, links and file are there
C6_Witness ==
    /\ HoldsLevel(2, 1, "write")
    /\ resp = Response("delete_contract", 2, 1, 403)
    /\ 1 \in DOMAIN contracts /\ <<1, 3>> \in tagLinks /\ <<1, 1>> \in listLinks
    /\ contracts[1].file_path \in files

\* ------------------------------------------------------------- updates in a row
\* the update requests sent one after another to the seeded contract: per
\* field an equal and a different value, and several fields at once
UpdateRequests ==
    {NoRequest,
     [NoRequest EXCEPT !.title = Some("A")],
     [NoRequest EXCEPT !.title = Some("B")],
     [NoRequest EXCEPT !.description = Some("d")],
     [NoRequest EXCEPT !.start_date = Some(DateTime(1, 1))],
     [NoRequest EXCEPT !.start_date = Some(DateTime(2, 0))],
     [NoRequest EXCEPT !.value = Some(1)],
     [NoRequest EXCEPT !.tags = Some(<<"Legal">>)],
     [NoRequest EXCEPT !.title = Some("B"), !.tags = Some(<<" Tax ", "">>)],
     [NoRequest EXCEPT !.tags = Some(<<"">>)],
     [NoRequest EXCEPT !.file = Some("ok")],
     [NoRequest EXCEPT !.file = Some("large")],
     [NoRequest EXCEPT !.title = Some("B"), !.notice_period = Some(60),
                       !.tags = Some(<<"Legal", "Tax">>), !.file = Some("ok")]}

\* the caller: the user, who holds no permission row
UpdateCallers == {2}

NextUpdate ==
    \/ \E u \in UpdateCallers, c \in ContractIds, req \in UpdateRequests :
          update_contract_begin(u, c, req)
    \/ \E r \in inflight : find_tag(r)
    \/ \E r \in inflight : update_contract_newtag(r)
    \/ \E r \in inflight : update_contract_commit(r)
    \/ \E r \in inflight : update_contract_audit(r)

SpecUpdate == InitSeeded /\ [][NextUpdate]_vars

\* ------------------------------------------------------------- claims: update and audit
\* what differs between the contract as the request found it and as it is now
ActualDiff(before, c) ==
    {f \in ScalarFields : before.row[f] # contracts[c][f]}
      \cup (IF before.row.file_path # contracts[c].file_path THEN {"file"} ELSE {})
      \cup (IF before.tags # TagNamesOf(c) THEN {"tags"} ELSE {})
\* this step completes update request r with 200
Completes(r) ==
    /\ r.op = "update_contract" /\ r.pc = "audit"
    /\ update_contract_audit(r)
    /\ resp'.status = 200

\* C9: an authorized update_contract that changed a field, the tag set or the
\* file appends, when it completes, exactly one UPDATE_CONTRACT row whose
\* summary names exactly the fields that differ from what the request found,
\* and no other step of an update appends a row; an update that is answered
\* without a change (every field absent, or equal to what is stored) writes
\* no table, no file and no audit row.
C9_OneEntryPerEffectiveUpdate ==
    [][/\ \A r \in inflight :
            Completes(r) =>
               /\ ActualDiff(r.before, r.cid) # {}
               /\ Len(audit') = Len(audit) + 1
               /\ \A i \in 1..Len(audit) : audit'[i] = audit[i]
               /\ audit'[Len(audit')].action = "UPDATE_CONTRACT"
               /\ audit'[Len(audit')].user_id = r.user
               /\ audit'[Len(audit')].details.marker = r.cid
               /\ DOMAIN audit'[Len(audit')].details.changes
                     = ActualDiff(r.before, r.cid)
       /\ audit' # audit => \E r \in inflight : Completes(r)
       /\ \A u \in UserIds, c \in DOMAIN contracts, req \in UpdateRequests :
            (update_contract_begin(u, c, req) /\ inflight' = inflight
                /\ resp'.status = 200)
              => UNCHANGED <<store, audit, files>>
       /\ \A u \in UserIds, c \in DOMAIN contracts :
            update_contract_begin(u, c, NoRequest) =>
               /\ resp' = ResponseTo(NoRequest, u, c, 200)
               /\ UNCHANGED <<store, audit, files, inflight>>]_vars
\* an update that named a new title, tags and a file has completed: one row,
\* listing the four fields that changed
C9_Witness ==
    /\ resp.op = "update_contract" /\ resp.status = 200
    /\ Len(audit) = 1
    /\ DOMAIN audit[1].details.changes = {"title", "notice_period", "tags", "file"}
    /\ contracts[1].title = "B" /\ TagNamesOf(1) = {"Legal", "Tax"}

\* C10 as stated: the update request that was just answered with 200, sent
\* again to the same contract, changes nothing: no table, no file, no audit
\* row (any combination of fields, tags and file).
C10_SameUpdateTwiceOneEntry ==
    [][\A u \in UserIds, c \in ContractIds, req \in UpdateRequests :
          (/\ inflight = {}
           /\ resp = ResponseTo(req, u, c, 200)
           /\ update_contract_begin(u, c, req))
          => UNCHANGED <<store, audit, files, inflight>>]_vars
\* C10, amended: the same holds for every request that supplies no file.
C10_SameUpdateTwiceOneEntryNoFile ==
    [][\A u \in UserIds, c \in ContractIds, req \in UpdateRequests :
          (/\ inflight = {}
           /\ resp = ResponseTo(req, u, c, 200)
           /\ req.file = None
           /\ update_contract_begin(u, c, req))
          => UNCHANGED <<store, audit, files, inflight>>]_vars
\* an update of title and tags has been applied and audited once; the log
\* has room for a second row and holds none
C10_Witness ==
    /\ inflight = {}
    /\ resp = ResponseTo([NoRequest EXCEPT !.title = Some("B"),
                                           !.tags = Some(<<" Tax ", "">>)], 2, 1, 200)
    /\ Len(audit) = 1
    /\ DOMAIN audit[1].details.changes = {"title", "tags"}
    /\ contracts[1].title = "B" /\ TagNamesOf(1) = {"Tax"}

\* ------------------------------------------------------------- updates beside another contract
\* a second uploaded contract, tagged "HR" and on list 1, that no request names
OtherContract == [title |-> "B", description |-> Some("d"),
                  start_date |-> DateTime(1, 0), end_date |-> DateTime(2, 0),
                  value |-> 1, notice_period |-> 60, file_path |-> 0]
InitTwo ==
    /\ users = SeededUsers
    /\ contracts = [c \in {1, 2} |-> IF c = 1 THEN SeededContract ELSE OtherContract]
    /\ tags = DefaultTags
    /\ tagLinks = {<<1, 3>>, <<2, 4>>}
    /\ lists = {1}
    /\ listLinks = {<<2, 1>>}
    /\ perms = {}
    /\ audit = <<>>
    /\ files = {0, 1}
    /\ inflight = {}
    /\ resp = Response("startup", 0, 0, 0)

NextFrame ==
    \/ \E u \in UpdateCallers, c \in {1}, req \in UpdateRequests :
          update_contract_begin(u, c, req)
    \/ \E r \in inflight : find_tag(r)
    \/ \E r \in inflight : update_contract_newtag(r)
    \/ \E r \in inflight : update_contract_commit(r)
    \/ \E r \in inflight : update_contract_audit(r)

SpecFrame == InitTwo /\ [][NextFrame]_vars

\* ------------------------------------------------------------- claims: update frame
\* the tag and list links of contract c
LinksOf(links, c) == {l \in links : l[1] = c}
\* this step is a commit of update request r
Commits(r) ==
    /\ r.op = "update_contract"
    /\ update_contract_newtag(r) \/ update_contract_commit(r)

\* C11: a commit of update_contract leaves every field of the contract that
\* the request does not supply as it was (title, description, start_date,
\* end_date, value, notice_period, the tag links, the file reference), changes
\* no row and no link of another contract and adds or removes no contract;
\* no other step of an update changes a contract row or a link.
C11_UpdateTouchesSuppliedFieldsOnly ==
    [][/\ \A r \in inflight :
            Commits(r) =>
               /\ DOMAIN contracts' = DOMAIN contracts
               /\ \A f \in ScalarFields :
                     r.req[f] = None => contracts'[r.cid][f] = contracts[r.cid][f]
               /\ r.req.file = None =>
                     contracts'[r.cid].file_path = contracts[r.cid].file_path
               /\ r.req.tags = None =>
                     LinksOf(tagLinks', r.cid) = LinksOf(tagLinks, r.cid)
               /\ \A c \in DOMAIN contracts \ {r.cid} :
                     /\ contracts'[c] = contracts[c]
                     /\ LinksOf(tagLinks', c) = LinksOf(tagLinks, c)
               /\ listLinks' = listLinks
       /\ (contracts' # contracts \/ tagLinks' # tagLinks \/ listLinks' # listLinks)
             => \E r \in inflight : Commits(r)]_vars
\* after an update of title, notice period, tags and file, an update of the
\* value alone has been committed: the first update's fields are as it left
\* them and the other contract is as uploaded
C11_Witness ==
    /\ Len(audit) = 2
    /\ DOMAIN audit[2].details.changes = {"value"}
    /\ contracts[1].title = "B" /\ contracts[1].notice_period = 60
    /\ contracts[1].value = 1 /\ TagNamesOf(1) = {"Legal", "Tax"}
    /\ contracts[2] = OtherContract /\ TagNamesOf(2) = {"HR"}

\* ------------------------------------------------------------- browsing and filing
\* the tags deleted: "Legal" (on contract 1), "HR" (on contract 2), "Software"
\* (on no contract) and one that does not exist
TagIdInputs == {1, 3, 4, 5}
ListIdInputs == {1, 2}
\* two contracts, list 1 holding contract 2, and a read row of the user on
\* contract 1
InitBrowse ==
    /\ users = SeededUsers
    /\ contracts = [c \in {1, 2} |-> IF c = 1 THEN SeededContract ELSE OtherContract]
    /\ tags = DefaultTags
    /\ tagLinks = {<<1, 3>>, <<2, 4>>, <<2, 3>>}
    /\ lists = {1}
    /\ listLinks = {<<2, 1>>}
    /\ perms = {[id |-> 1, user_id |-> 2, contract_id |-> 1,
                 permission_level |-> "read"]}
    /\ audit = <<>>
    /\ files = {0, 1}
    /\ inflight = {}
    /\ resp = Response("startup", 0, 0, 0)

NextBrowse ==
    \/ \E u \in UserIds, t \in TagIdInputs : delete_tag_begin(u, t)
    \/ \E r \in inflight : delete_tag_audit(r)
    \/ \E u \in UserIds, l \in ListIdInputs, c \in {1, 2, 3} :
          add_contract_to_list(u, l, c)
    \/ \E u \in UserIds, l \in ListIdInputs, c \in {1, 2, 3} :
          remove_contract_from_list(u, l, c)
    \/ \E u \in UserIds, c \in {1, 2} : download_contract(u, c)
    \/ \E u \in UserIds : get_audit_logs(u)
    \/ \E u \in UserIds, c \in {1, 2} : get_contract_audit_logs(u, c)

SpecBrowse == InitBrowse /\ [][NextBrowse]_vars

\* ------------------------------------------------------------- claims: the audit log
\* C12: the audit log is append-only: in every step the log of the state before
\* is a prefix of the log after, so no entry is removed, reordered or changed
\* in its user reference, action or details.
C12_AuditAppendOnly ==
    [][/\ Len(audit') >= Len(audit)
       /\ \A i \in 1..Len(audit) : audit'[i] = audit[i]]_vars
\* the log holds two entries of the same user and action: the first was kept
\* when the second was appended
C12_Witness ==
    /\ Len(audit) = 2
    /\ audit[1].user_id = audit[2].user_id
    /\ audit[1].action = audit[2].action

\* C13: a caller whose role is not admin is answered 403 and no entries by the
\* global feed and by the per-contract feed.
C13_AuditFeedsAdminOnly ==
    (resp.op \in {"get_audit_logs", "get_contract_audit_logs"}
       /\ users[resp.user].role # "admin")
      => resp.status = 403 /\ resp.logs = <<>>
\* the user was answered the entries of contract 1 by the per-contract feed
C13_Witness ==
    /\ resp.op = "get_contract_audit_logs" /\ resp.user = 2
    /\ resp.status = 200 /\ resp.logs # <<>>

\* ------------------------------------------------------------- claims: list membership
\* C15: a user who is not an admin and whose rows on contract c are all read
\* rows does not change the list membership of c by adding c to or removing
\* c from a list.
C15_ReadOnlyCannotChangeMembership ==
    [][\A u \in UserIds, c \in DOMAIN contracts, l \in ListIdInputs :
          (/\ ~IsAdmin(u) /\ HoldsLevel(u, c, "read")
           /\ add_contract_to_list(u, l, c) \/ remove_contract_from_list(u, l, c))
            => LinksOf(listLinks', c) = LinksOf(listLinks, c)]_vars
\* the user, holding a read row on contract 1, has put contract 1 on list 1
C15_Witness ==
    /\ resp.op = "add_contract_to_list" /\ resp.user = 2 /\ resp.cid = 1
    /\ resp.status = 201
    /\ HoldsLevel(2, 1, "read")
    /\ <<1, 1>> \in listLinks

\* ------------------------------------------------------------- claims: tag deletion
\* the query filtered by one tag name
ByTag(name) == [NoFilter EXCEPT !.tags = Some(<<name>>)]

\* C19: the commit of delete_tag removes the tag row and every link to it and
\* changes nothing else: users, contracts, lists, list links, permission rows,
\* audit log, files, the other tags and the other links are as before; every
\* contract is still stored, and a query filtered by the deleted tag's name
\* then returns no contract, for any caller.
C19_DeleteTagRemovesTagAndLinksOnly ==
    [][\A t \in DOMAIN tags :
          (tags' # tags /\ \E u \in UserIds : delete_tag_begin(u, t)) =>
             /\ DOMAIN tags' = DOMAIN tags \ {t}
             /\ \A x \in DOMAIN tags' : tags'[x] = tags[x]
             /\ tagLinks' = tagLinks \ {l \in tagLinks : l[2] = t}
             /\ \A l \in tagLinks' : l[2] # t
             /\ UNCHANGED <<users, contracts, lists, listLinks, perms, audit, files>>
             /\ \A u \in UserIds, name \in {tags[t].name} :
                   ContractQuery(users[u], perms, ByTag(name))' = {}]_vars
\* "Legal", which contracts 1 and 2 carried, has been deleted: both contracts
\* are stored as uploaded, contract 1 without a tag and contract 2 with "HR"
C19_Witness ==
    /\ resp.op = "delete_tag" /\ resp.status = 204
    /\ ~Exists(tags, 3)
    /\ contracts = [c \in {1, 2} |-> IF c = 1 THEN SeededContract ELSE OtherContract]
    /\ TagIdsOf(1) = {} /\ TagIdsOf(2) = {4}
    /\ ContractQuery(users[2], perms, ByTag("Legal")) = {}
    /\ ContractQuery(users[2], perms, ByTag("HR")) = {2}

\* ------------------------------------------------------------- queries
QueryFilters ==
    {NoFilter,
     [NoFilter EXCEPT !.q = Some("a")],
     [NoFilter EXCEPT !.q = Some("d")],
     [NoFilter EXCEPT !.tags = Some(<<"Legal">>)],
     [NoFilter EXCEPT !.tags = Some(<<" ", "HR">>)],
     [NoFilter EXCEPT !.tags = Some(<<"Legal", "HR">>)],
     [NoFilter EXCEPT !.tags = Some(<<"Software">>), !.list_id = Some(1)],
     [NoFilter EXCEPT !.list_id = Some(1)],
     [NoFilter EXCEPT !.min_value = Some(1)],
     [NoFilter EXCEPT !.max_value = Some(0), !.start_date_from = Some(DateTime(1, 0))],
     [NoFilter EXCEPT !.start_date_to = Some(DateTime(0, 1))],
     [NoFilter EXCEPT !.status = Some("active"), !.now = DateTime(2, 1)],
     [NoFilter EXCEPT !.status = Some("expired"), !.now = DateTime(2, 1)]}
\* two contracts, list 1 holding contract 2, and any table of permission rows
InitQuery ==
    /\ users = SeededUsers
    /\ contracts = [c \in {1, 2} |-> IF c = 1 THEN SeededContract ELSE OtherContract]
    /\ tags = DefaultTags
    /\ tagLinks = {<<1, 3>>, <<2, 4>>, <<2, 3>>}
    /\ lists = {1}
    /\ listLinks = {<<2, 1>>}
    /\ perms \in PermTables
    /\ audit = <<>>
    /\ files = {0, 1}
    /\ inflight = {}
    /\ resp = Response("startup", 0, 0, 0)

NextQuery ==
    \/ \E u \in UserIds, flt \in QueryFilters : read_contracts(u, flt)
    \/ \E u \in UserIds, c \in {1, 2} : add_contract_to_list(u, 1, c)
    \/ \E u \in UserIds, c \in {1, 2} : remove_contract_from_list(u, 1, c)

SpecQuery == InitQuery /\ [][NextQuery]_vars

\* ------------------------------------------------------------- claims: the contract query
\* C14: read_contracts answers the caller with the rows any user would be
\* answered with for the same filters and contract data when no
\* ContractPermission row is stored, whatever rows are stored.
C14_QueryIgnoresUserAndPermissions ==
    [][(resp' # resp /\ resp'.op = "read_contracts") =>
          /\ read_contracts(resp'.user, resp'.flt)
          /\ \A other \in UserIds :
                resp'.rows = ContractQuery(users[other], {}, resp'.flt)]_vars
\* the user, who holds a row on contract 1 only, was answered both contracts
C14_Witness ==
    /\ resp.op = "read_contracts" /\ resp.user = 2 /\ resp.rows = {1, 2}
    /\ perms # {} /\ \A p \in perms : p.user_id = 2 /\ p.contract_id = 1

\* ------------------------------------------------------------- updates side by side
\* The update requests of two callers whose fields are disjoint: the admin
\* changes title and start date, the user value, description, notice period
\* and tags.
WorkerRequests(u) ==
    IF u = 1
      THEN {[NoRequest EXCEPT !.title = Some("B")],
            [NoRequest EXCEPT !.start_date = Some(DateTime(2, 0))]}
      ELSE {[NoRequest EXCEPT !.value = Some(1)],
            [NoRequest EXCEPT !.description = Some("d"), !.notice_period = Some(60)],
            [NoRequest EXCEPT !.tags = Some(<<"HR">>)]}

\* Requests served side by side: each runs lookup, flush and log_audit on a
\* session of its own, and the steps of two requests interleave in every
\* order (the requests of one event loop run one after the other, which is one
\* of these orders).
NextWorkers ==
    \/ \E u \in UserIds : \E req \in WorkerRequests(u) :
          update_contract_start(u, 1, req)
    \/ \E r \in inflight : find_tag(r)
    \/ \E r \in inflight : update_contract_commit(r)
    \/ \E r \in inflight : update_contract_audit(r)

SpecWorkers == InitSeeded /\ [][NextWorkers]_vars

\* ------------------------------------------------------------- claims: concurrent updates
\* the fields two audit entries list are disjoint
DisjointEntries(i, j) ==
    /\ i # j
    /\ audit[i].action = "UPDATE_CONTRACT" /\ audit[j].action = "UPDATE_CONTRACT"
    /\ audit[i].details.marker = audit[j].details.marker
    /\ DOMAIN audit[i].details.changes \cap DOMAIN audit[j].details.changes = {}
\* contract c holds for field f the new value of a diff summary
Persisted(c, f, change) ==
    CASE f \in {"start_date", "end_date"} -> contracts[c][f].date = change[2]
      [] f = "tags" -> TagNamesOf(c) = SeqToSet(change[2])
      [] f = "file" -> TRUE
      [] OTHER -> contracts[c][f] = change[2]

\* C18: every update_contract of the two callers is answered 200, and when two
\* completed updates changed disjoint fields of the contract, each field that
\* no further update changed holds the value its update gave it once no
\* request is in progress, in whatever order the steps of the requests ran.
C18_DisjointUpdatesBothPersist ==
    /\ resp.op = "update_contract" => resp.status = 200
    /\ inflight = {} =>
         \A i, j \in 1..Len(audit) :
            DisjointEntries(i, j) =>
               \A f \in DOMAIN audit[i].details.changes :
                  (\A k \in 1..Len(audit) :
                      k # i => f \notin DOMAIN audit[k].details.changes)
                    => Persisted(audit[i].details.marker, f,
                                 audit[i].details.changes[f])
\* the admin's title update and the user's tag update have both completed and
\* both changes are stored
C18_Witness ==
    /\ inflight = {}
    /\ Len(audit) = 2
    /\ audit[1].user_id = 1 /\ DOMAIN audit[1].details.changes = {"title"}
    /\ audit[2].user_id = 2 /\ DOMAIN audit[2].details.changes = {"tags"}
    /\ contracts[1].title = "B" /\ TagNamesOf(1) = {"HR"}

\* C17: update_contract, download_contract and delete_contract on an id with
\* no contract row (never created, or deleted) are answered 404 at once and
\* change neither the entity store, the audit log nor the stored files; a
\* contract row leaves the store by delete_contract on its id only, and none
\* enters it by these operations.
C17_MissingContractIsNotFound ==
    [][/\ \A c \in ContractIds \ DOMAIN contracts, u \in UserIds, op \in GateOps :
            GateStep(op, u, c) =>
               /\ resp' = IF op = "update_contract"
                            THEN ResponseTo(resp'.req, u, c, 404)
                            ELSE Response(op, u, c, 404)
               /\ UNCHANGED <<store, audit, files, inflight>>
       /\ DOMAIN contracts' # DOMAIN contracts =>
            \E c \in DOMAIN contracts :
               /\ DOMAIN contracts' = DOMAIN contracts \ {c}
               /\ \E u \in UserIds : delete_contract(u, c)]_vars
\* a delete of contract 1, which had been deleted, was answered 404
C17_Witness ==
    /\ resp.op = "delete_contract" /\ resp.cid = 1 /\ resp.status = 404
    /\ ~Exists(contracts, 1)
    /\ inflight = {}

\* C16: the id a new contract row is given was never the id of a contract
\* before: no audit entry carries its marker and no permission row names it.
C16_NewContractHasFreshId ==
    [][\A c \in DOMAIN contracts' \ DOMAIN contracts :
          /\ \A i \in 1..Len(audit) : audit[i].details.marker # c
          /\ \A p \in perms : p.contract_id # c]_vars
\* contract 1 is stored and the log holds the UPLOAD entries of two contracts
\* with id 1
C16_Witness ==
    /\ Exists(contracts, 1)
    /\ Len(audit) = 2
    /\ \A i \in 1..2 : audit[i].action = "UPLOAD" /\ audit[i].details.marker = 1

\* ------------------------------------------------------------- numeric inputs
\* uploads and updates with a value and a notice period of either sign
NumericForms == [title : {"A"}, description : {None}, start_date : {DateTime(1, 0)},
                 end_date : {DateTime(2, 0)}, value : {0, -1},
                 notice_period : {30, -1}, tags : {<<"Legal">>}, file : {"ok"}]
NumericUpdates ==
    {[NoRequest EXCEPT !.value = Some(-1)],
     [NoRequest EXCEPT !.notice_period = Some(-1)],
     [NoRequest EXCEPT !.value = Some(1), !.notice_period = Some(0)]}

NextNumeric ==
    \/ \E u \in UserIds, form \in NumericForms : create_contract_begin(u, form)
    \/ \E r \in inflight : find_tag(r)
    \/ \E r \in inflight : create_contract_commit(r)
    \/ \E r \in inflight : create_contract_audit(r)
    \/ \E u \in UserIds, c \in ContractIds, req \in NumericUpdates :
          update_contract_begin(u, c, req)
    \/ \E r \in inflight : update_contract_commit(r)
    \/ \E r \in inflight : update_contract_audit(r)

SpecNumeric == Init /\ [][NextNumeric]_vars

\* ------------------------------------------------------------- claims: numeric fields
\* C20: every stored contract has a value of at least 0 and a notice period of
\* at least 0.
C20_ValueAndNoticeNonNegative ==
    \A c \in DOMAIN contracts :
       contracts[c].value >= 0 /\ contracts[c].notice_period >= 0
\* an upload with value -1 was answered 200 and the contract is stored with it
C20_Witness ==
    /\ resp.op = "create_contract" /\ resp.status = 200
    /\ Exists(contracts, 1) /\ contracts[1].value = -1

\* ------------------------------------------------------------- user administration
UserCreates == [username : {"bob", "ab", "no good", "testuser"}]
UserUpdates ==
    {NoUserUpdate,
     [NoUserUpdate EXCEPT !.username = Some("no good")],
     [NoUserUpdate EXCEPT !.username = Some("ab")],
     [NoUserUpdate EXCEPT !.username = Some("admin")],
     [NoUserUpdate EXCEPT !.role = Some("root")],
     [NoUserUpdate EXCEPT !.is_active = Some(TRUE), !.password = Some("short")],
     [NoUserUpdate EXCEPT !.is_active = Some(TRUE)]}

NextUsers ==
    \/ \E u \in UserIds, user_data \in UserCreates : create_user_begin(u, user_data)
    \/ \E r \in inflight : create_user_commit(r)
    \/ \E r \in inflight : create_user_audit(r)
    \/ \E u \in UserIds, user_id \in 1..MaxUsers, user_data \in UserUpdates :
          update_user_begin(u, user_id, user_data)
    \/ \E r \in inflight : update_user_commit(r)
    \/ \E r \in inflight : update_user_audit(r)
    \/ \E u \in UserIds, user_id \in 1..MaxUsers : delete_user_begin(u, user_id)
    \/ \E r \in inflight : delete_user_audit(r)

SpecUsers == Init /\ [][NextUsers]_vars

\* ------------------------------------------------------------- claims: users
\* C21: every stored username is unique, 3 to 32 characters long and made of
\* letters, digits, underscore and hyphen only.
C21_UsernamesValidAndUnique ==
    \A u \in DOMAIN users :
       /\ LengthOk(users[u].username)
       /\ username_pattern(users[u].username)
       /\ UserByName(users[u].username) = {u}
\* the rename of testuser to "no good" was answered 200 and is stored
C21_Witness ==
    /\ resp.op = "update_user" /\ resp.status = 200
    /\ users[2].username = "no good"

\* C22: no step removes a user row or changes a user's id; every audit
\* entry's user_id is the id of a stored user; delete_user keeps the row and
\* sets is_active to false alone; and delete_user by an admin on the admin's
\* own id is answered 400 with the store and the audit log unchanged.
C22_UsersAreNeverRemoved ==
    /\ [](\A i \in 1..Len(audit) : audit[i].user_id \in DOMAIN users)
    /\ [][/\ DOMAIN users \subseteq DOMAIN users'
          /\ \A u \in UserIds, t \in DOMAIN users :
                (delete_user_begin(u, t) /\ users' # users) =>
                   users' = [users EXCEPT ![t].is_active = FALSE]
          /\ \A u \in UserIds :
                (IsAdmin(u) /\ delete_user_begin(u, u)) =>
                   /\ resp' = Response("delete_user", u, 0, 400)
                   /\ UNCHANGED <<store, audit, files, inflight>>]_vars
\* testuser was deactivated by the admin: its row is stored, inactive, and the
\* log holds the DEACTIVATE_USER entry
C22_Witness ==
    /\ resp.op = "delete_user" /\ resp.status = 204
    /\ Exists(users, 2) /\ ~users[2].is_active
    /\ users[1].is_active
    /\ Len(audit) = 1 /\ audit[1].action = "DEACTIVATE_USER"

\* ------------------------------------------------------------- the admin surface
TagCreates == [name : {"Tax", ""}]
TagUpdates == [name : {None, Some("Law")}]
AdminPermData == [user_id : {2}, contract_id : {1}, permission_level : {"read"}]

\* every admin-only endpoint, called by the admin and by the user
NextAdmin ==
    \/ \E u \in UserIds, tag_data \in TagCreates : create_tag_begin(u, tag_data)
    \/ \E r \in inflight : create_tag_commit(r)
    \/ \E r \in inflight : create_tag_audit(r)
    \/ \E u \in UserIds, t \in {3}, tag_data \in TagUpdates :
          update_tag_begin(u, t, tag_data)
    \/ \E r \in inflight : update_tag_commit(r)
    \/ \E r \in inflight : update_tag_audit(r)
    \/ \E u \in UserIds, t \in {3} : delete_tag_begin(u, t)
    \/ \E r \in inflight : delete_tag_audit(r)
    \/ \E u \in UserIds, user_data \in [username : {"bob"}] :
          create_user_begin(u, user_data)
    \/ \E r \in inflight : create_user_commit(r)
    \/ \E r \in inflight : create_user_audit(r)
    \/ \E u \in UserIds :
          update_user_begin(u, 2, [NoUserUpdate EXCEPT !.is_active = Some(FALSE)])
    \/ \E r \in inflight : update_user_commit(r)
    \/ \E r \in inflight : update_user_audit(r)
    \/ \E u \in UserIds : delete_user_begin(u, 2)
    \/ \E r \in inflight : delete_user_audit(r)
    \/ \E u \in UserIds : list_users(u)
    \/ \E u \in UserIds : list_permissions(u)
    \/ \E u \in UserIds : get_user_permissions(u, 2)
    \/ \E u \in UserIds, perm_data \in AdminPermData : create_permission_begin(u, perm_data)
    \/ \E r \in inflight : create_permission_commit(r)
    \/ \E r \in inflight : create_permission_audit(r)
    \/ \E u \in UserIds, p \in 1..MaxPerms : delete_permission_begin(u, p)
    \/ \E r \in inflight : delete_permission_audit(r)
    \/ \E u \in UserIds : get_audit_logs(u)

SpecAdmin == InitSeeded /\ [][NextAdmin]_vars

\* ------------------------------------------------------------- claims: the admin surface
\* user u calls an admin-only endpoint in this step
AdminCall(u) ==
    \/ \E tag_data \in TagCreates : create_tag_begin(u, tag_data)
    \/ \E t \in {3}, tag_data \in TagUpdates : update_tag_begin(u, t, tag_data)
    \/ \E t \in {3} : delete_tag_begin(u, t)
    \/ \E user_data \in [username : {"bob"}] : create_user_begin(u, user_data)
    \/ update_user_begin(u, 2, [NoUserUpdate EXCEPT !.is_active = Some(FALSE)])
    \/ delete_user_begin(u, 2)
    \/ list_users(u)
    \/ list_permissions(u)
    \/ get_user_permissions(u, 2)
    \/ \E perm_data \in AdminPermData : create_permission_begin(u, perm_data)
    \/ \E p \in 1..MaxPerms : delete_permission_begin(u, p)
    \/ get_audit_logs(u)
AdminOps == {"create_tag", "update_tag", "delete_tag", "create_user", "update_user",
             "delete_user", "list_users", "list_permissions", "get_user_permissions",
             "create_permission", "delete_permission", "get_audit_logs"}

\* C23: a call of an admin-only endpoint (tag create, update, delete; user
\* create, update, deactivate; the permission listings, create and delete; the
\* global audit feed) by a user whose role is not admin is answered 403 at
\* once, and the store, the audit log, the files and the requests in progress
\* are unchanged.
C23_AdminEndpointsRefuseUsers ==
    [][\A u \in UserIds :
          (~IsAdmin(u) /\ AdminCall(u)) =>
             /\ resp'.status = 403 /\ resp'.user = u /\ resp'.op \in AdminOps
             /\ UNCHANGED <<store, audit, files, inflight>>]_vars
\* the user's create_tag was answered 403 after the admin had created the tag
\* "Tax": the tags are as the admin left them
C23_Witness ==
    /\ resp.op = "create_tag" /\ resp.user = 2 /\ resp.status = 403
    /\ ~IsAdmin(2)
    /\ Len(audit) = 1 /\ audit[1].action = "CREATE_TAG" /\ audit[1].user_id = 1

\* C24: for every combination of filters read_contracts returns contracts of
\* the unfiltered result only, every returned contract passes every filter
\* supplied, and each contract is returned exactly once, also when several
\* of its tags are among the requested ones.
C24_QueryFiltersAndDeduplicates ==
    [][(resp' # resp /\ resp'.op = "read_contracts") =>
          LET flt == resp'.flt
              tag_list == IF flt.tags = None THEN {} ELSE SeqToSet(StripAll(Get(flt.tags)))
          IN  /\ read_contracts(resp'.user, flt)
              /\ BagToSet(resp'.result) \subseteq
                    BagToSet(ContractRows(users[resp'.user], perms, NoFilter))
              /\ \A c \in BagToSet(resp'.result) :
                    /\ CopiesIn(c, resp'.result) = 1
                    /\ Selected(c, flt)
                    /\ tag_list # {} =>
                          \E t \in DOMAIN tags :
                             tags[t].name \in tag_list /\ <<c, t>> \in tagLinks
                    /\ flt.list_id # None => <<c, Get(flt.list_id)>> \in listLinks
              \* and nothing that passes every filter is left out
              /\ \A c \in DOMAIN contracts : Selected(c, flt) => BagIn(c, resp'.result)]_vars
\* contract 2 carries both requested tags and was returned once
C24_Witness ==
    /\ resp.op = "read_contracts" /\ resp.flt.tags = Some(<<"Legal", "HR">>)
    /\ {<<2, 3>>, <<2, 4>>} \subseteq tagLinks
    /\ tags[3].name = "Legal" /\ tags[4].name = "HR"
    /\ BagToSet(resp.result) = {1, 2} /\ CopiesIn(2, resp.result) = 1

\* ------------------------------------------------------------- the per-contract feed
FeedUpdates == {[NoRequest EXCEPT !.title = Some("[CID:1]")],
                [NoRequest EXCEPT !.title = Some("B")]}
\* contract 2 is renamed and downloaded, contract 1 downloaded, and the feeds
\* of both are read
NextFeed ==
    \/ \E req \in FeedUpdates : update_contract_begin(1, 2, req)
    \/ \E r \in inflight : update_contract_commit(r)
    \/ \E r \in inflight : update_contract_audit(r)
    \/ \E u \in UserIds, c \in {1, 2} : download_contract(u, c)
    \/ \E u \in UserIds, c \in {1, 2} : get_contract_audit_logs(u, c)

SpecFeed == InitTwo /\ [][NextFeed]_vars

\* C25: the feed of contract c holds only entries recorded by operations on
\* contract c, those whose detail text starts with the marker of c; an entry
\* recorded for another contract never appears in it.
C25_FeedHoldsOwnEntriesOnly ==
    (resp.op = "get_contract_audit_logs" /\ resp.status = 200) =>
        \A i \in 1..Len(resp.logs) : resp.logs[i].details.marker = resp.cid
\* the feed of contract 1 has returned the entry of the update that renamed
\* contract 2 to "[CID:1]"
C25_Witness ==
    /\ resp.op = "get_contract_audit_logs" /\ resp.cid = 1
    /\ \E i \in 1..Len(resp.logs) :
          /\ resp.logs[i].action = "UPDATE_CONTRACT"
          /\ resp.logs[i].details.marker = 2
          /\ resp.logs[i].details.changes["title"][2] = "[CID:1]"

\* ------------------------------------------------------------- racing find-or-create
RaceForms == [title : {"A"}, description : {None}, start_date : {DateTime(1, 0)},
              end_date : {DateTime(2, 0)}, value : {0}, notice_period : {30},
              tags : {<<"Tax">>}, file : {"ok"}]
RaceUpdates == {[NoRequest EXCEPT !.tags = Some(<<"Tax">>)]}
\* Uploads and updates served side by side by several workers, and the admin's
\* create_tag on a thread of its own: the lookup of a tag name and the insert
\* of the missing tag of one request interleave with those of the others.
NextRace ==
    \/ \E form \in RaceForms : create_contract_start(1, form)
    \/ \E r \in inflight : find_tag(r)
    \/ \E r \in inflight : create_contract_newtag(r)
    \/ \E r \in inflight : create_contract_commit(r)
    \/ \E r \in inflight : create_contract_audit(r)
    \/ \E req \in RaceUpdates : update_contract_start(1, 1, req)
    \/ \E r \in inflight : update_contract_newtag(r)
    \/ \E r \in inflight : update_contract_commit(r)
    \/ \E r \in inflight : update_contract_audit(r)
    \/ create_tag_begin(1, [name |-> "Tax"])
    \/ \E r \in inflight : create_tag_commit(r)
    \/ \E r \in inflight : create_tag_audit(r)
    \/ delete_contract(1, 1)

SpecRace == InitSeeded /\ [][NextRace]_vars

\* ------------------------------------------------------------- claims: racing find-or-create
\* request r is about to insert a tag row
Inserting(r) ==
    \/ r.op \in AsyncOps /\ r.pc = "newtag"
    \/ r.op = "create_tag" /\ r.pc = "commit"
\* the name of the row
InsertedName(r) == IF r.op = "create_tag" THEN r.name ELSE Head(r.todo)
\* the insert step of request r
Inserts(r) ==
    \/ create_contract_newtag(r)
    \/ update_contract_newtag(r)
    \/ create_tag_commit(r)

\* C26: while uploads, updates and create_tag find-or-create the same tag
\* name side by side, no two Tag rows ever hold the same name; a request
\* whose insert finds the name taken since its lookup ends in an error (the
\* unique-constraint failure, answered 500) and adds no row, and every other
\* insert adds exactly the one row of its name.
C26_NoDuplicateTagUnderRace ==
    /\ [](\A t1 \in DOMAIN tags, t2 \in DOMAIN tags :
            tags[t1].name = tags[t2].name => t1 = t2)
    /\ [][\A r \in inflight :
            (Inserting(r) /\ Inserts(r)) =>
               IF TagByName(InsertedName(r)) # {}
                 THEN /\ tags' = tags
                      /\ resp'.status = 500 /\ resp'.op = r.op
                      /\ r \notin inflight'
               \* an update whose contract was deleted meanwhile fails as well
               ELSE IF r.op = "update_contract" /\ ~Exists(contracts, r.cid)
                 THEN tags' = tags /\ resp'.status = 500
                 ELSE /\ Len(tags') = Len(tags) + 1
                      /\ tags'[Len(tags')].name = InsertedName(r)
                      /\ \A t \in DOMAIN tags : tags'[t] = tags[t]]_vars
\* an update lost the race for "Tax" against another update: one row "Tax",
\* the loser answered 500 while its contract exists, the winner still in
\* progress with the new tag
C26_Witness ==
    /\ resp.op = "update_contract" /\ resp.status = 500
    /\ Exists(contracts, 1)
    /\ Cardinality(TagByName("Tax")) = 1
    /\ \E q \in inflight : q.op = "update_contract" /\ q.got = TagByName("Tax")

\* ------------------------------------------------------------- replacement files
ReplaceRequests ==
    {[NoRequest EXCEPT !.title = Some("B"), !.file = Some("large")],
     [NoRequest EXCEPT !.value = Some(1), !.file = Some("badtype")],
     [NoRequest EXCEPT !.description = Some("d"), !.file = Some("savefail")],
     [NoRequest EXCEPT !.title = Some("B"), !.file = Some("ok")],
     [NoRequest EXCEPT !.file = Some("ok")],
     [NoRequest EXCEPT !.value = Some(1)]}
\* the requests whose file is refused or fails to be saved
RefusedFiles == {req \in ReplaceRequests : req.file \notin {None, Some("ok")}}

NextReplace ==
    \/ \E u \in UserIds, req \in ReplaceRequests : update_contract_begin(u, 1, req)
    \/ \E r \in inflight : update_contract_commit(r)
    \/ \E r \in inflight : update_contract_audit(r)
    \/ \E u \in UserIds : download_contract(u, 1)

SpecReplace == InitSeeded /\ [][NextReplace]_vars

\* the status a refused replacement file is answered with
FileStatus(file) ==
    IF file = Some("large") THEN 413 ELSE IF file = Some("badtype") THEN 400 ELSE 500

\* C27: an update_contract that carries a replacement file which is too
\* large, of an unsupported type, or fails to be saved is answered with an
\* error (413, 400, 500) in the same step: no field of the request is
\* stored, the contract keeps its file reference, the blob it refers to stays
\* on disk, no audit entry is written and nothing of the request stays in
\* progress.
C27_RejectedFileChangesNothing ==
    [][\A req \in RefusedFiles :
          update_contract_begin(1, 1, req) =>
             /\ resp'.status = FileStatus(req.file)
             /\ contracts' = contracts
             /\ contracts[1].file_path \in files => contracts[1].file_path \in files'
             /\ UNCHANGED <<store, audit, files, inflight>>]_vars
\* the update with a new title and a file that is too large was answered
\* 413 after an earlier update had replaced the file: the title is the old
\* one, the blob of the earlier replacement is on disk
C27_Witness ==
    /\ resp.op = "update_contract" /\ resp.status = 413 /\ resp.user = 1
    /\ contracts[1].title = "A"
    /\ contracts[1].file_path # SeededContract.file_path
    /\ contracts[1].file_path \in files
    /\ Len(audit) = 1

\* ------------------------------------------------------------- deleting contracts
DeletePermData == [user_id : {2}, contract_id : {2}, permission_level : {"full"}]
DeleteForms == [title : {"A"}, description : {None}, start_date : {DateTime(1, 0)},
                end_date : {DateTime(2, 0)}, value : {0}, notice_period : {30},
                tags : {<<"">>}, file : {"ok"}]
\* contracts are deleted by the admin and by the user, who is granted full
\* on contract 2, and put on list 1
NextDelete ==
    \/ \E u \in UserIds, c \in {1, 2} : delete_contract(u, c)
    \/ \E c \in {1, 2} : add_contract_to_list(1, 1, c)
    \/ \E perm_data \in DeletePermData : create_permission_begin(1, perm_data)
    \/ \E r \in inflight : create_permission_commit(r)
    \/ \E r \in inflight : create_permission_audit(r)

SpecDelete == InitBrowse /\ [][NextDelete]_vars

\* contracts are deleted and uploaded and permission rows granted and revoked
NextOrphan ==
    \/ \E c \in {1, 2} : delete_contract(1, c)
    \/ \E form \in DeleteForms : create_contract_begin(1, form)
    \/ \E r \in inflight : create_contract_commit(r)
    \/ \E r \in inflight : create_contract_audit(r)
    \/ \E perm_data \in DeletePermData : create_permission_begin(1, perm_data)
    \/ \E r \in inflight : create_permission_commit(r)
    \/ \E r \in inflight : create_permission_audit(r)
    \/ delete_permission_begin(1, 1)
    \/ \E r \in inflight : delete_permission_audit(r)

SpecOrphan == InitBrowse /\ [][NextOrphan]_vars

\* C28: a delete_contract answered 204 removes the contract row and every
\* contract-tag and contract-list link of the contract, whether the stored
\* file was removed or its removal failed; no link row names the deleted id
\* afterwards, the rows and links of the other contracts are as before, and
\* no tag and no list is removed.
C28_DeleteRemovesRowAndLinks ==
    [][\A u \in UserIds, c \in {1, 2} :
          (delete_contract(u, c) /\ resp'.status = 204) =>
             /\ Exists(contracts, c) /\ ~Exists(contracts', c)
             /\ \A l \in tagLinks' \cup listLinks' : l[1] # c
             /\ tagLinks' = tagLinks \ LinksOf(tagLinks, c)
             /\ listLinks' = listLinks \ LinksOf(listLinks, c)
             /\ \A d \in DOMAIN contracts \ {c} : contracts'[d] = contracts[d]
             /\ tags' = tags /\ lists' = lists
             /\ files' \in {files, files \ {contracts[c].file_path}}]_vars
\* contract 2, which carried two tags and was on list 1, was deleted while
\* the removal of its file failed: the file is on disk, its links are gone,
\* the tags and the list exist
C28_Witness ==
    /\ resp.op = "delete_contract" /\ resp.cid = 2 /\ resp.status = 204
    /\ DOMAIN contracts = {1}
    /\ OtherContract.file_path \in files
    /\ tagLinks = {<<1, 3>>} /\ listLinks = {}
    /\ tags = DefaultTags /\ lists = {1}

\* C29: every ContractPermission row names a contract that exists.
C29_PermissionRowsNameContracts ==
    \A p \in perms : Exists(contracts, p.contract_id)
\* contract 1 was deleted and the row that granted the user read on it
\* is still stored
C29_Witness ==
    /\ resp.op = "delete_contract" /\ resp.cid = 1 /\ resp.status = 204
    /\ ~Exists(contracts, 1)
    /\ \E p \in perms : p.contract_id = 1 /\ p.user_id = 2

\* ------------------------------------------------------------- authentication
\* auth.verify_password: the password given is the one the stored hash was
\* made from
verify_password(plain_password, user) == plain_password = "right"
\* auth.create_access_token: a signed token carrying the claims
create_access_token(data) == [sub |-> data.sub, role |-> data.role]
\* get_current_user after the token is decoded (lines 119-122): the user row
\* whose username is the token's sub, none when no row has it
get_current_user(token) == UserByName(token.sub)

\* login_for_access_token; no user here has a totp_secret
login_for_access_token(form_data) ==
    IF \A u \in UserByName(form_data.username) : ~verify_password(form_data.password, users[u])
      THEN Reply("login", 0, 0, 401)
    ELSE \E u \in UserByName(form_data.username) :
           /\ RoomForAudit
           /\ log_audit(u, "LOGIN", 0, "", NoChanges)
           /\ resp' = [op |-> "login", user |-> u, cid |-> 0, status |-> 200,
                       access_token |-> create_access_token(
                          [sub |-> users[u].username, role |-> users[u].role])]
           /\ UNCHANGED <<store, files, inflight>>

\* a request whose token names no user is answered 401 by get_current_user
not_authenticated(token) ==
    /\ get_current_user(token) = {}
    /\ Reply("get_current_user", 0, 0, 401)

LoginForms == [username : {"testuser", "ghost"}, password : {"right", "wrong"}]
\* the token the user obtained before, and one naming no user
Tokens == {create_access_token([sub |-> "testuser", role |-> "user"]),
           create_access_token([sub |-> "ghost", role |-> "user"])}
\* the admin deactivates the user, who logs in and sends
\* requests with an earlier token
NextLogin ==
    \/ \E form_data \in LoginForms : login_for_access_token(form_data)
    \/ delete_user_begin(1, 2)
    \/ \E r \in inflight : delete_user_audit(r)
    \/ \E token \in Tokens : not_authenticated(token)
    \/ \E token \in Tokens : \E u \in get_current_user(token) : download_contract(u, 1)
    \/ \E token \in Tokens : \E u \in get_current_user(token) :
          add_contract_to_list(u, 1, 1)
    \/ \E token \in Tokens : \E u \in get_current_user(token) :
          remove_contract_from_list(u, 1, 1)

SpecLogin == InitBrowse /\ [][NextLogin]_vars

\* C30: while a user is deactivated, no login of the user is answered with a
\* token, and no request changes contracts, list links or the audit log in
\* the user's name.
C30_DeactivatedUserIsLockedOut ==
    [][\A u \in DOMAIN users :
          ~users[u].is_active =>
             /\ ~(resp' # resp /\ resp'.op = "login" /\ resp'.status = 200
                              /\ resp'.user = u)
             /\ Len(audit') > Len(audit) => audit'[Len(audit')].user_id # u
             /\ (resp' # resp /\ resp'.user = u) =>
                   UNCHANGED <<contracts, tagLinks, listLinks>>]_vars
\* the user was deactivated and has logged in afterwards: the login was
\* answered with a token and is in the audit log under the user's id
C30_Witness ==
    /\ ~users[2].is_active
    /\ Len(audit) = 2
    /\ audit[1].action = "DEACTIVATE_USER" /\ audit[1].user_id = 1
    /\ audit[2].action = "LOGIN" /\ audit[2].user_id = 2
    /\ resp.op = "login" /\ resp.status = 200 /\ resp.access_token.sub = "testuser"

====
